---------------------------- MODULE Spec2Model ----------------------------
(***************************************************************************)
(* A model of the SI 201 "Collaboration Effect in Music" pipeline:         *)
(* database_setup, gather_deezer, gather_musicbrainz, gather_itunes,       *)
(* process_data and analyze_visualize, over one SQLite database file.      *)
(*                                                                         *)
(* Text values (genre tags, genre names, categories) are sequences of      *)
(* one-character strings, so that str.lower() and the substring test       *)
(* "v in genre_lower" are computed and not assumed.                        *)
(***************************************************************************)
EXTENDS Integers, Sequences, FiniteSets, TLC

(***************************************************************************)
(* Text helpers                                                            *)
(***************************************************************************)

\* Python's None where a text value is expected (a NULL column, a missing
\* tag).  It is a one-element tuple whose element is not a character.
None == <<"<None>">>

UpperCase == <<"A", "B", "C", "D", "E", "F", "G", "H", "I", "J", "K", "L", "M", "N", "O", "P", "Q", "R", "S", "T", "U", "V", "W", "X", "Y", "Z">>
LowerCase == <<"a", "b", "c", "d", "e", "f", "g", "h", "i", "j", "k", "l", "m", "n", "o", "p", "q", "r", "s", "t", "u", "v", "w", "x", "y", "z">>

\* str.lower() on one character: ASCII letters are folded, the rest kept.
LowerChar(c) ==
    IF \E i \in 1..Len(UpperCase) : UpperCase[i] = c
    THEN LowerCase[CHOOSE i \in 1..Len(UpperCase) : UpperCase[i] = c]
    ELSE c

\* str.lower()
Lower(s) == [i \in 1..Len(s) |-> LowerChar(s[i])]

\* Python's "v in s" for strings: v is a contiguous substring of s.
Contains(s, v) ==
    \E i \in 0..(Len(s) - Len(v)) : SubSeq(s, i + 1, i + Len(v)) = v

\* "not x" for an optional text: None or the empty string.
Falsy(x) == x = None \/ x = <<>>

\* The concatenation of a sequence of sequences.
RECURSIVE Concat(_)
Concat(ss) == IF ss = <<>> THEN <<>> ELSE Head(ss) \o Concat(Tail(ss))

MinOf(S) == CHOOSE x \in S : \A y \in S : x <= y
MaxOf(S) == CHOOSE x \in S : \A y \in S : x >= y

s_other == <<"o", "t", "h", "e", "r">>
s_Unknown == <<"U", "n", "k", "n", "o", "w", "n">>

(***************************************************************************)
(* Genre normalisation: process_data.normalize_genre and                   *)
(* analyze_visualize.normalize_genre.  The mappings keep the order of the  *)
(* dict literals: the first category with a matching variant wins.         *)
(***************************************************************************)

PD_mappings ==
    << [genre |-> <<"h", "i", "p", "-", "h", "o", "p">>,
        variants |-> <<
            <<"h", "i", "p", " ", "h", "o", "p">>,
            <<"h", "i", "p", "-", "h", "o", "p">>,
            <<"r", "a", "p">>,
            <<"t", "r", "a", "p">>,
            <<"h", "i", "p", " ", "h", "o", "p", " ", "s", "o", "u", "l">> >>],
       [genre |-> <<"r", "o", "c", "k">>,
        variants |-> <<
            <<"r", "o", "c", "k">>,
            <<"a", "l", "t", "e", "r", "n", "a", "t", "i", "v", "e", " ", "r", "o", "c", "k">>,
            <<"h", "a", "r", "d", " ", "r", "o", "c", "k">>,
            <<"a", "l", "t", "e", "r", "n", "a", "t", "i", "v", "e", " ", "m", "e", "t", "a", "l">>,
            <<"i", "n", "d", "u", "s", "t", "r", "i", "a", "l", " ", "m", "e", "t", "a", "l">>,
            <<"a", "l", "t", "e", "r", "n", "a", "t", "i", "v", "e">> >>],
       [genre |-> <<"p", "o", "p">>,
        variants |-> <<
            <<"p", "o", "p">>,
            <<"a", "r", "t", " ", "p", "o", "p">>,
            <<"f", "o", "l", "k", " ", "p", "o", "p">>,
            <<"d", "a", "n", "c", "e">>,
            <<"e", "l", "e", "c", "t", "r", "o", "p", "o", "p">> >>],
       [genre |-> <<"r", "&", "b">>,
        variants |-> <<
            <<"r", "&", "b">>,
            <<"c", "o", "n", "t", "e", "m", "p", "o", "r", "a", "r", "y", " ", "r", "&", "b">>,
            <<"s", "o", "u", "l">>,
            <<"r", "&", "b", "/", "s", "o", "u", "l">> >>],
       [genre |-> <<"l", "a", "t", "i", "n">>,
        variants |-> <<
            <<"r", "e", "g", "g", "a", "e", "t", "o", "n">>,
            <<"l", "a", "t", "i", "n", " ", "u", "r", "b", "a", "n">>,
            <<"l", "a", "t", "i", "n">>,
            <<"m", "u_acute", "s", "i", "c", "a", " ", "m", "e", "x", "i", "c", "a", "n", "a">> >>],
       [genre |-> <<"c", "o", "u", "n", "t", "r", "y">>,
        variants |-> <<
            <<"c", "o", "u", "n", "t", "r", "y">> >>],
       [genre |-> <<"e", "l", "e", "c", "t", "r", "o", "n", "i", "c">>,
        variants |-> <<
            <<"e", "l", "e", "c", "t", "r", "o", "n", "i", "c">>,
            <<"e", "d", "m">>,
            <<"h", "o", "u", "s", "e">>,
            <<"t", "e", "c", "h", "n", "o">> >>],
       [genre |-> <<"j", "a", "z", "z">>,
        variants |-> <<
            <<"j", "a", "z", "z">> >>],
       [genre |-> <<"c", "l", "a", "s", "s", "i", "c", "a", "l">>,
        variants |-> <<
            <<"c", "l", "a", "s", "s", "i", "c", "a", "l">> >>] >>

AV_mappings ==
    << [genre |-> <<"h", "i", "p", "-", "h", "o", "p">>,
        variants |-> <<
            <<"h", "i", "p", " ", "h", "o", "p">>,
            <<"h", "i", "p", "-", "h", "o", "p">>,
            <<"r", "a", "p">>,
            <<"t", "r", "a", "p">> >>],
       [genre |-> <<"r", "o", "c", "k">>,
        variants |-> <<
            <<"r", "o", "c", "k">>,
            <<"a", "l", "t", "e", "r", "n", "a", "t", "i", "v", "e", " ", "r", "o", "c", "k">>,
            <<"h", "a", "r", "d", " ", "r", "o", "c", "k">>,
            <<"a", "l", "t", "e", "r", "n", "a", "t", "i", "v", "e">> >>],
       [genre |-> <<"p", "o", "p">>,
        variants |-> <<
            <<"p", "o", "p">>,
            <<"d", "a", "n", "c", "e">>,
            <<"e", "l", "e", "c", "t", "r", "o", "p", "o", "p">> >>],
       [genre |-> <<"r", "&", "b">>,
        variants |-> <<
            <<"r", "&", "b">>,
            <<"c", "o", "n", "t", "e", "m", "p", "o", "r", "a", "r", "y", " ", "r", "&", "b">>,
            <<"s", "o", "u", "l">>,
            <<"r", "&", "b", "/", "s", "o", "u", "l">> >>],
       [genre |-> <<"l", "a", "t", "i", "n">>,
        variants |-> <<
            <<"r", "e", "g", "g", "a", "e", "t", "o", "n">>,
            <<"l", "a", "t", "i", "n">>,
            <<"m", "u_acute", "s", "i", "c", "a", " ", "m", "e", "x", "i", "c", "a", "n", "a">> >>],
       [genre |-> <<"c", "o", "u", "n", "t", "r", "y">>,
        variants |-> <<
            <<"c", "o", "u", "n", "t", "r", "y">> >>],
       [genre |-> <<"e", "l", "e", "c", "t", "r", "o", "n", "i", "c">>,
        variants |-> <<
            <<"e", "l", "e", "c", "t", "r", "o", "n", "i", "c">>,
            <<"e", "d", "m">>,
            <<"h", "o", "u", "s", "e">> >>] >>

\* The loop over mappings.items(): the first category one of whose variants
\* equals genre_lower or is a substring of it; "other" when there is none.
FirstMatch(genre_lower, mappings) ==
    LET hits == { k \in 1..Len(mappings) :
                    \/ \E j \in 1..Len(mappings[k].variants) :
                           mappings[k].variants[j] = genre_lower
                    \/ \E j \in 1..Len(mappings[k].variants) :
                           Contains(genre_lower, mappings[k].variants[j]) }
    IN  IF hits = {} THEN s_other ELSE mappings[MinOf(hits)].genre

\* A plausible slip: the default of guess_genre_from_name ("pop") used as
\* the default category.
PD_normalize_genre_default_pop(genre_name) ==
    IF Falsy(genre_name) THEN s_other
    ELSE LET r == FirstMatch(Lower(genre_name), PD_mappings)
         IN  IF r = s_other THEN <<"p", "o", "p">> ELSE r

\* process_data.normalize_genre
PD_normalize_genre(genre_name) ==
    IF Falsy(genre_name) THEN s_other
    ELSE FirstMatch(Lower(genre_name), PD_mappings)

\* analyze_visualize.normalize_genre
AV_normalize_genre(genre_name) ==
    IF Falsy(genre_name) \/ genre_name = s_Unknown THEN s_other
    ELSE FirstMatch(Lower(genre_name), AV_mappings)

(***************************************************************************)
(* The database: five tables, each a set of rows.  Columns that are        *)
(* written once and read by no operation of the pipeline (duration,        *)
(* collab_indicator, featuring_artist, the iTunes name, artist, price and  *)
(* release date, and the surrogate key stat_id) are left out of the rows.  *)
(***************************************************************************)

\* AUTOINCREMENT: a fresh key, larger than every key in use.  (SQLite may
\* also skip a value when an INSERT OR IGNORE is ignored; the keys are
\* surrogates, and only their freshness and their order are modelled.)
NextRowId(rows, key) ==
    IF rows = {} THEN 1 ELSE MaxOf({ r[key] : r \in rows }) + 1

RECURSIVE SortedSeq(_)
SortedSeq(S) ==
    IF S = {} THEN <<>> ELSE <<MinOf(S)>> \o SortedSeq(S \ {MinOf(S)})

(***************************************************************************)
(* gather_deezer                                                           *)
(***************************************************************************)

\* gather_deezer.MAX_ITEMS_PER_RUN (200 in debug mode, 25 in production),
\* scaled down.
DZ_MAX_ITEMS_PER_RUN == 1

\* Title words that COLLAB_PATTERNS / COLLAB_INDICATORS look for.  A title
\* is a sequence of words; the regular expressions are read word by word.
CollabOpeners == {"(feat", "(feat.", "[feat", "[feat.", "(with"}
CollabInfixes == {"feat", "feat.", "ft", "ft.", "featuring", "with", "x", "&"}

\* detect_collaboration: 1 when a bracketed marker is followed by text, or
\* an infix marker stands between two words; 0 otherwise.
detect_collaboration(title) ==
    IF \/ \E i \in 1..(Len(title) - 1) : title[i] \in CollabOpeners
       \/ \E i \in 2..(Len(title) - 1) : title[i] \in CollabInfixes
    THEN 1 ELSE 0

\* A plausible slip: the insert does not look at deezer_id (no UNIQUE
\* constraint on it), so every track of the batch is stored.
InsertTrackAlways(rows, track) ==
    LET id == NextRowId(rows, "track_id")
    IN  [rows |-> rows \cup
             {[track_id |-> id,
               deezer_id |-> track.deezer_id,
               title |-> track.title,
               artist_name |-> track.artist_name,
               popularity |-> track.popularity,
               is_collaboration |-> detect_collaboration(track.title)]},
         rowcount |-> 1, lastrowid |-> id]

\* INSERT OR IGNORE INTO tracks: deezer_id is UNIQUE, so a row whose
\* deezer_id is present is skipped (rowcount 0); otherwise the row gets the
\* next track_id.
InsertOrIgnoreTrack(rows, track) ==
    IF \E t \in rows : t.deezer_id = track.deezer_id
    THEN [rows |-> rows, rowcount |-> 0, lastrowid |-> 0]
    ELSE LET id == NextRowId(rows, "track_id")
         IN  [rows |-> rows \cup
                  {[track_id |-> id,
                    deezer_id |-> track.deezer_id,
                    title |-> track.title,
                    artist_name |-> track.artist_name,
                    popularity |-> track.popularity,
                    is_collaboration |-> detect_collaboration(track.title)]},
              rowcount |-> 1, lastrowid |-> id]

\* A plausible slip: INSERT OR REPLACE, which deletes the row that holds
\* the name and inserts a new one under a new genre_id.
InsertOrReplaceGenre(rows, genre_name) ==
    { g \in rows : g.genre_name # genre_name } \cup
    {[genre_id |-> NextRowId(rows, "genre_id"), genre_name |-> genre_name]}

\* INSERT OR IGNORE INTO genres (genre_name): genre_name is UNIQUE.
InsertOrIgnoreGenre(rows, genre_name) ==
    IF \E g \in rows : g.genre_name = genre_name
    THEN rows
    ELSE rows \cup {[genre_id |-> NextRowId(rows, "genre_id"),
                     genre_name |-> genre_name]}

\* INSERT OR IGNORE INTO track_genres: (track_id, genre_id) is the primary
\* key of this rowid table.
InsertOrIgnoreTrackGenre(rows, track_id, genre_id) ==
    IF \E tg \in rows : tg.track_id = track_id /\ tg.genre_id = genre_id
    THEN [rows |-> rows, rowcount |-> 0]
    ELSE [rows |-> rows \cup {[rowid |-> NextRowId(rows, "rowid"),
                               track_id |-> track_id, genre_id |-> genre_id]},
          rowcount |-> 1]

\* SELECT genre_id FROM genres WHERE genre_name = ?  (fetchone)
SelectGenreId(rows, genre_name) ==
    { g.genre_id : g \in { r \in rows : r.genre_name = genre_name } }

\* store_genre_for_track(cursor, track_id, genre_name)
store_genre_for_track(d, track_id, genre_name) ==
    LET gs     == InsertOrIgnoreGenre(d.genres, genre_name)
        result == SelectGenreId(gs, genre_name)
    IN  IF result # {}
        THEN [d EXCEPT !.genres = gs,
                       !.track_genres =
                           InsertOrIgnoreTrackGenre(@, track_id, MinOf(result)).rows]
        ELSE [d EXCEPT !.genres = gs]

\* The loop of store_tracks over the (already sliced) batch.  A track dict
\* without a 'genre' key has genre = None.
RECURSIVE StoreLoop(_, _, _)
StoreLoop(d, ts, stored_count) ==
    IF ts = <<>> THEN [db |-> d, ret |-> stored_count]
    ELSE LET track == Head(ts)
             ins   == InsertOrIgnoreTrack(d.tracks, track)
             d1    == [d EXCEPT !.tracks = ins.rows]
         IN  IF ins.rowcount > 0
             THEN StoreLoop(IF track.genre # None
                            THEN store_genre_for_track(d1, ins.lastrowid, track.genre)
                            ELSE d1,
                            Tail(ts), stored_count + 1)
             ELSE StoreLoop(d1, Tail(ts), stored_count)

\* A plausible slip: the batch is not sliced.
NoSlice(ts) == ts

\* tracks[:MAX_ITEMS_PER_RUN]
SliceDeezer(ts) ==
    SubSeq(ts, 1, IF Len(ts) < DZ_MAX_ITEMS_PER_RUN THEN Len(ts)
                  ELSE DZ_MAX_ITEMS_PER_RUN)

\* store_tracks(tracks): the new database and the returned stored_count.
store_tracks(d, ts) == StoreLoop(d, SliceDeezer(ts), 0)

\* A plausible slip: a failed request falls back to a static track list.
fetch_deezer_charts_static_fallback(response) ==
    IF response.failed
    THEN <<[deezer_id |-> 1, title |-> <<"Stay">>,
            artist_name |-> <<"D", "r", "a", "k", "e">>,
            popularity |-> 10, genre |-> None]>>
    ELSE response.data

\* fetch_deezer_charts(): the track dicts built from the response, [] when
\* the request raised a RequestException.
fetch_deezer_charts(response) ==
    IF response.failed THEN <<>> ELSE response.data

(***************************************************************************)
(* gather_musicbrainz                                                      *)
(***************************************************************************)

\* gather_musicbrainz.MAX_ITEMS_PER_RUN (100 in debug mode, 25 in
\* production), scaled down.
MB_MAX_ITEMS_PER_RUN == 1

genre_hints ==
    << [genre |-> <<"h", "i", "p", "-", "h", "o", "p">>,
        keywords |-> <<
            <<"d", "r", "a", "k", "e">>,
            <<"e", "m", "i", "n", "e", "m">>,
            <<"k", "e", "n", "d", "r", "i", "c", "k">>,
            <<"t", "r", "a", "v", "i", "s">>,
            <<"p", "o", "s", "t", " ", "m", "a", "l", "o", "n", "e">>,
            <<"k", "a", "n", "y", "e">>,
            <<"j", "a", "y", "-", "z">>,
            <<"l", "i", "l">>,
            <<"b", "a", "d", " ", "b", "u", "n", "n", "y">>,
            <<"m", "i", "g", "o", "s">>,
            <<"c", "a", "r", "d", "i">> >>],
       [genre |-> <<"r", "o", "c", "k">>,
        keywords |-> <<
            <<"i", "m", "a", "g", "i", "n", "e", " ", "d", "r", "a", "g", "o", "n", "s">>,
            <<"c", "o", "l", "d", "p", "l", "a", "y">>,
            <<"l", "i", "n", "k", "i", "n">>,
            <<"q", "u", "e", "e", "n">>,
            <<"b", "e", "a", "t", "l", "e", "s">>,
            <<"c", "h", "i", "l", "i">>,
            <<"n", "i", "r", "v", "a", "n", "a">>,
            <<"f", "o", "o">>,
            <<"g", "r", "e", "e", "n", " ", "d", "a", "y">>,
            <<"a", "c", "/", "d", "c">>,
            <<"m", "e", "t", "a", "l", "l", "i", "c", "a">> >>],
       [genre |-> <<"r", "&", "b">>,
        keywords |-> <<
            <<"w", "e", "e", "k", "n", "d">>,
            <<"r", "i", "h", "a", "n", "n", "a">>,
            <<"b", "e", "y", "o", "n", "c", "e_acute">>,
            <<"b", "e", "y", "o", "n", "c", "e">>,
            <<"f", "r", "a", "n", "k", " ", "o", "c", "e", "a", "n">>,
            <<"s", "z", "a">>,
            <<"u", "s", "h", "e", "r">>,
            <<"c", "h", "r", "i", "s", " ", "b", "r", "o", "w", "n">>,
            <<"a", "l", "i", "c", "i", "a">> >>],
       [genre |-> <<"c", "o", "u", "n", "t", "r", "y">>,
        keywords |-> <<
            <<"c", "o", "m", "b", "s">>,
            <<"w", "a", "l", "l", "e", "n">>,
            <<"s", "t", "a", "p", "l", "e", "t", "o", "n">>,
            <<"c", "a", "r", "r", "i", "e">>,
            <<"b", "l", "a", "k", "e">>,
            <<"k", "e", "n", "n", "y">>,
            <<"d", "o", "l", "l", "y">>,
            <<"g", "a", "r", "t", "h">> >>],
       [genre |-> <<"p", "o", "p">>,
        keywords |-> <<
            <<"s", "w", "i", "f", "t">>,
            <<"s", "h", "e", "e", "r", "a", "n">>,
            <<"g", "r", "a", "n", "d", "e">>,
            <<"b", "i", "e", "b", "e", "r">>,
            <<"e", "i", "l", "i", "s", "h">>,
            <<"m", "a", "r", "s">>,
            <<"d", "u", "a", " ", "l", "i", "p", "a">>,
            <<"h", "a", "r", "r", "y", " ", "s", "t", "y", "l", "e", "s">>,
            <<"k", "a", "t", "y", " ", "p", "e", "r", "r", "y">>,
            <<"l", "a", "d", "y", " ", "g", "a", "g", "a">> >>],
       [genre |-> <<"e", "l", "e", "c", "t", "r", "o", "n", "i", "c">>,
        keywords |-> <<
            <<"d", "a", "f", "t", " ", "p", "u", "n", "k">>,
            <<"a", "v", "i", "c", "i", "i">>,
            <<"m", "a", "r", "s", "h", "m", "e", "l", "l", "o">>,
            <<"c", "a", "l", "v", "i", "n", " ", "h", "a", "r", "r", "i", "s">>,
            <<"d", "e", "a", "d", "m", "a", "u", "5">>,
            <<"s", "k", "r", "i", "l", "l", "e", "x">>,
            <<"t", "i", "e", "s", "t", "o">> >>],
       [genre |-> <<"j", "a", "z", "z">>,
        keywords |-> <<
            <<"m", "i", "l", "e", "s", " ", "d", "a", "v", "i", "s">>,
            <<"c", "o", "l", "t", "r", "a", "n", "e">>,
            <<"m", "o", "n", "k">>,
            <<"a", "r", "m", "s", "t", "r", "o", "n", "g">>,
            <<"e", "l", "l", "a">> >>],
       [genre |-> <<"c", "l", "a", "s", "s", "i", "c", "a", "l">>,
        keywords |-> <<
            <<"b", "e", "e", "t", "h", "o", "v", "e", "n">>,
            <<"m", "o", "z", "a", "r", "t">>,
            <<"b", "a", "c", "h">>,
            <<"c", "h", "o", "p", "i", "n">>,
            <<"v", "i", "v", "a", "l", "d", "i">> >>] >>

\* guess_genre_from_name: the first genre one of whose keywords occurs in
\* the lower-cased artist name; 'pop' when there is none.
guess_genre_from_name(artist_name) ==
    LET artist_lower == Lower(artist_name)
        hits == { k \in 1..Len(genre_hints) :
                    \E j \in 1..Len(genre_hints[k].keywords) :
                        Contains(artist_lower, genre_hints[k].keywords[j]) }
    IN  IF hits = {} THEN <<"p", "o", "p">> ELSE genre_hints[MinOf(hits)].genre

\* The first n elements of a sequence (LIMIT n).
Limit(s, n) == SubSeq(s, 1, IF Len(s) < n THEN Len(s) ELSE n)

\* SELECT ... FROM tracks t LEFT JOIN track_genres tg ... WHERE tg.genre_id
\* IS NULL: the track_ids with no track_genres row, in rowid order.
TracksWithoutGenre(d) ==
    SortedSeq({ t.track_id : t \in { r \in d.tracks :
                    ~ \E tg \in d.track_genres : tg.track_id = r.track_id } })

TrackById(d, track_id) == CHOOSE t \in d.tracks : t.track_id = track_id

\* A plausible slip (and what a normalising enrichment stage would do):
\* the tag is normalised before it is stored.
GenreForTrackNormalized(artist_name, fetched) ==
    IF Falsy(fetched) THEN guess_genre_from_name(artist_name)
    ELSE PD_normalize_genre(fetched)

\* The genre stored for one track: the tag fetch_genre_for_artist returned,
\* or the guess when it returned None or an empty tag.
GenreForTrack(artist_name, fetched) ==
    IF Falsy(fetched) THEN guess_genre_from_name(artist_name) ELSE fetched

\* The loop of assign_genres_to_tracks; fetched[track_id] is what
\* fetch_genre_for_artist returns for that track.
RECURSIVE AssignLoop(_, _, _, _)
AssignLoop(d, ids, fetched, assigned_count) ==
    IF ids = <<>> THEN [db |-> d, ret |-> assigned_count]
    ELSE LET track_id == Head(ids)
             genre    == GenreForTrack(TrackById(d, track_id).artist_name,
                                       fetched[track_id])
             gs       == InsertOrIgnoreGenre(d.genres, genre)
             result   == SelectGenreId(gs, genre)
             link     == InsertOrIgnoreTrackGenre(d.track_genres, track_id,
                                                  MinOf(result))
         IN  IF result # {}
             THEN AssignLoop([d EXCEPT !.genres = gs, !.track_genres = link.rows],
                             Tail(ids), fetched, assigned_count + link.rowcount)
             ELSE AssignLoop([d EXCEPT !.genres = gs], Tail(ids), fetched,
                             assigned_count)

\* The tracks one run of assign_genres_to_tracks processes.
TracksToProcess(d) == Limit(TracksWithoutGenre(d), MB_MAX_ITEMS_PER_RUN)

\* Without the fallback to guess_genre_from_name, a track whose lookup
\* returned nothing would be skipped.
assign_genres_without_guess(d, fetched) ==
    AssignLoop(d, SelectSeq(TracksToProcess(d), LAMBDA id : ~Falsy(fetched[id])),
               fetched, 0)

\* assign_genres_to_tracks()
assign_genres_to_tracks(d, fetched) ==
    AssignLoop(d, TracksToProcess(d), fetched, 0)

(***************************************************************************)
(* gather_itunes                                                           *)
(***************************************************************************)

\* gather_itunes.MAX_ITEMS_PER_RUN (100 in debug mode, 25 in production),
\* scaled down.
IT_MAX_ITEMS_PER_RUN == 1

\* get_tracks_without_itunes(): the track_ids with no itunes_tracks row, in
\* rowid order, at most MAX_ITEMS_PER_RUN of them.
get_tracks_without_itunes(d) ==
    Limit(SortedSeq({ t.track_id : t \in { r \in d.tracks :
                    ~ \E it \in d.itunes_tracks : it.track_id = r.track_id } }),
          IT_MAX_ITEMS_PER_RUN)

\* What search_itunes returns: <<>> for None (not found, or the request
\* failed), <<data>> for a result dict.
NoResult == <<>>

\* store_itunes_track(track_id, itunes_data): INSERT OR IGNORE, itunes_id
\* is the primary key; False for no data or an itunes_id already stored.
store_itunes_track(d, track_id, itunes_data) ==
    IF itunes_data = NoResult THEN [db |-> d, success |-> FALSE]
    ELSE IF \E it \in d.itunes_tracks : it.itunes_id = itunes_data[1].itunes_id
    THEN [db |-> d, success |-> FALSE]
    ELSE [db |-> [d EXCEPT !.itunes_tracks = @ \cup
                     {[itunes_id |-> itunes_data[1].itunes_id,
                       track_id |-> track_id,
                       itunes_genre |-> itunes_data[1].itunes_genre]}],
          success |-> TRUE]

\* The loop of gather_itunes.main; found[track_id] is what search_itunes
\* returns for that track.
RECURSIVE ItunesLoop(_, _, _, _)
ItunesLoop(d, ids, found, stored_count) ==
    IF ids = <<>> THEN [db |-> d, ret |-> stored_count]
    ELSE LET r == store_itunes_track(d, Head(ids), found[Head(ids)])
         IN  ItunesLoop(r.db, Tail(ids), found,
                        IF r.success THEN stored_count + 1 ELSE stored_count)

(***************************************************************************)
(* The join of process_data.calculate_collaboration_stats and              *)
(* analyze_visualize.get_track_data:                                       *)
(*   tracks t LEFT JOIN itunes_tracks it LEFT JOIN track_genres tg         *)
(*            LEFT JOIN genres g                                           *)
(* One row per (track, iTunes row or NULL, genre link or NULL), in rowid   *)
(* order.                                                                  *)
(***************************************************************************)

\* The iTunes genres joined to one track, by itunes_id; <<None>> (one row
\* of NULLs) when it has no iTunes row.
ItunesGenresOf(d, track_id) ==
    LET its == { it \in d.itunes_tracks : it.track_id = track_id }
        ids == SortedSeq({ it.itunes_id : it \in its })
    IN  IF its = {} THEN <<None>>
        ELSE [n \in 1..Len(ids) |->
                 (CHOOSE it \in its : it.itunes_id = ids[n]).itunes_genre]

\* The genre names joined to one track through track_genres and genres, by
\* genre_id; <<None>> when it has no link.
GenreNamesOf(d, track_id) ==
    LET tgs == { tg \in d.track_genres : tg.track_id = track_id }
        ids == SortedSeq({ tg.genre_id : tg \in tgs })
    IN  IF tgs = {} THEN <<None>>
        ELSE [n \in 1..Len(ids) |->
                 IF \E g \in d.genres : g.genre_id = ids[n]
                 THEN (CHOOSE g \in d.genres : g.genre_id = ids[n]).genre_name
                 ELSE None]

\* The joined rows of one track.
TrackJoin(d, t) ==
    LET is == ItunesGenresOf(d, t.track_id)
        gs == GenreNamesOf(d, t.track_id)
    IN  [k \in 1..(Len(is) * Len(gs)) |->
            [track_id |-> t.track_id,
             popularity |-> t.popularity,
             is_collaboration |-> t.is_collaboration,
             itunes_genre |-> is[((k - 1) \div Len(gs)) + 1],
             genre_name |-> gs[((k - 1) % Len(gs)) + 1]]]

\* The joined rows of all tracks.
JoinRows(d) ==
    LET ids == SortedSeq({ t.track_id : t \in d.tracks })
    IN  Concat([n \in 1..Len(ids) |-> TrackJoin(d, TrackById(d, ids[n]))])

\* A plausible slip: the arguments of COALESCE in the other order, the
\* linked genre before the iTunes genre.
CoalesceLinkedFirst(a, b) == IF b # None THEN b ELSE a

\* COALESCE(a, b): the first that is not NULL.
Coalesce(a, b) == IF a # None THEN a ELSE b

(***************************************************************************)
(* process_data                                                            *)
(***************************************************************************)

\* The rows calculate_collaboration_stats fetches:
\* genre = COALESCE(it.itunes_genre, g.genre_name).
PD_tracks(d) ==
    LET j == JoinRows(d)
    IN  [k \in 1..Len(j) |->
            [popularity |-> j[k].popularity,
             is_collaboration |-> j[k].is_collaboration,
             genre |-> Coalesce(j[k].itunes_genre, j[k].genre_name)]]

\* key = (normalized, is_collab)
StatKey(row) == <<PD_normalize_genre(row.genre), row.is_collaboration>>

\* The keys of the stats dict, in the order of their first appearance.
StatKeys(rows) ==
    LET firsts == SortedSeq({ k \in 1..Len(rows) :
                     \A j \in 1..(k - 1) : StatKey(rows[j]) # StatKey(rows[k]) })
    IN  [n \in 1..Len(firsts) |-> StatKey(rows[firsts[n]])]

\* stats[key]: the popularities of the rows with that key, in row order.
RECURSIVE Popularities(_, _)
Popularities(rows, key) ==
    IF rows = <<>> THEN <<>>
    ELSE (IF StatKey(Head(rows)) = key THEN <<Head(rows).popularity>> ELSE <<>>)
         \o Popularities(Tail(rows), key)

RECURSIVE SumSeq(_)
SumSeq(s) == IF s = <<>> THEN 0 ELSE Head(s) + SumSeq(Tail(s))

\* Twice np.median of a non-empty list (kept an integer).
Median2(s) ==
    LET o == SortSeq(s, LAMBDA a, b : a < b)
        n == Len(o)
    IN  IF n % 2 = 1 THEN 2 * o[(n + 1) \div 2] ELSE o[n \div 2] + o[(n \div 2) + 1]

\* INSERT INTO genres (genre_name) VALUES (?): a plain insert, which raises
\* sqlite3.IntegrityError when the name is present (genre_name is UNIQUE).
InsertGenre(rows, genre_name) ==
    IF \E g \in rows : g.genre_name = genre_name
    THEN [ok |-> FALSE, rows |-> rows, genre_id |-> 0]
    ELSE LET id == NextRowId(rows, "genre_id")
         IN  [ok |-> TRUE,
              rows |-> rows \cup {[genre_id |-> id, genre_name |-> genre_name]},
              genre_id |-> id]

\* A plausible slip: the genre is inserted without looking it up first.
CreateGenreAlways(rows, genre_name) == InsertGenre(rows, genre_name)

\* "Get or create genre": look the name up, insert it when it is absent.
GetOrCreateGenre(rows, genre_name) ==
    LET result == SelectGenreId(rows, genre_name)
    IN  IF result # {}
        THEN [ok |-> TRUE, rows |-> rows, genre_id |-> MinOf(result)]
        ELSE InsertGenre(rows, genre_name)

\* The loop of calculate_collaboration_stats over stats.items().
\* avg_popularity is sum_popularity / track_count; median_popularity is
\* median2_popularity / 2.
RECURSIVE StatsLoop(_, _, _, _)
StatsLoop(d, rows, keys, created_count) ==
    IF keys = <<>> THEN [db |-> d, ret |-> created_count, error |-> ""]
    ELSE LET genre        == Head(keys)[1]
             is_collab    == Head(keys)[2]
             popularities == Popularities(rows, Head(keys))
             got          == GetOrCreateGenre(d.genres, genre)
         IN  IF ~got.ok
             THEN [db |-> d, ret |-> created_count, error |-> "IntegrityError"]
             ELSE StatsLoop(
                    [d EXCEPT !.genres = got.rows,
                              !.collaboration_stats = @ \cup
                                  {[genre_id |-> got.genre_id,
                                    is_collaboration |-> is_collab,
                                    track_count |-> Len(popularities),
                                    sum_popularity |-> SumSeq(popularities),
                                    median2_popularity |-> Median2(popularities)]}],
                    rows, Tail(keys), created_count + 1)

\* calculate_collaboration_stats(): DELETE FROM collaboration_stats, then
\* one row per (category, is_collaboration).  Nothing is committed when no
\* track is found (the connection is closed without commit) or when an
\* insert raises, so the database is then left as it was.
calculate_collaboration_stats(d) ==
    LET cleared == [d EXCEPT !.collaboration_stats = {}]
        rows    == PD_tracks(d)
        r       == StatsLoop(cleared, rows, StatKeys(rows), 0)
    IN  IF rows = <<>> THEN [db |-> d, ret |-> 0, error |-> ""]
        ELSE IF r.error # "" THEN [db |-> d, ret |-> 0, error |-> r.error]
        ELSE r

\* check_data_status' requirements (100, 1, 50 and 50 rows), scaled down.
REQ_TRACKS == 2
REQ_GENRES == 1
REQ_TRACK_GENRES == 1
REQ_ITUNES_TRACKS == 1

\* A plausible slip: only the tracks table is required.
check_data_status_tracks_only(d, tables_exist) ==
    /\ tables_exist
    /\ Cardinality(d.tracks) >= REQ_TRACKS

\* check_data_status(): whether every table holds the rows required; a
\* missing table is caught and counts as not ready.
check_data_status(d, tables_exist) ==
    /\ tables_exist
    /\ Cardinality(d.tracks) >= REQ_TRACKS
    /\ Cardinality(d.genres) >= REQ_GENRES
    /\ Cardinality(d.track_genres) >= REQ_TRACK_GENRES
    /\ Cardinality(d.itunes_tracks) >= REQ_ITUNES_TRACKS

(***************************************************************************)
(* analyze_visualize                                                       *)
(***************************************************************************)

\* get_track_data(): the DataFrame of the join,
\* genre = COALESCE(it.itunes_genre, g.genre_name, 'Unknown').
get_track_data(d) ==
    LET j == JoinRows(d)
    IN  [k \in 1..Len(j) |->
            [popularity |-> j[k].popularity,
             is_collaboration |-> j[k].is_collaboration,
             genre |-> Coalesce(j[k].itunes_genre,
                                Coalesce(j[k].genre_name, s_Unknown))]]

\* The popularity column, sorted.
SortedPopularity(df) ==
    SortSeq([k \in 1..Len(df) |-> df[k].popularity], LAMBDA a, b : a < b)

\* pd.qcut(..., q=3): three times the k-th bin edge (k = 0..3), the
\* quantile k/3 of the column by linear interpolation between the order
\* statistics around position k(n-1)/3.  Kept times three to stay integer.
Edge3(df, k) ==
    LET s   == SortedPopularity(df)
        pos == k * (Len(df) - 1)
        lo  == (pos \div 3) + 1
        rem == pos % 3
    IN  IF rem = 0 THEN 3 * s[lo]
        ELSE 3 * s[lo] + rem * (s[lo + 1] - s[lo])

\* The bin edges after duplicates='drop'.
UniqueEdges3(df) == { Edge3(df, k) : k \in 0..3 }

\* qcut raises ValueError ("Bin labels must be one fewer than the number
\* of bin edges") when dropping duplicate edges leaves fewer than three
\* bins for the three labels.
QcutRaises(df) == Cardinality(UniqueEdges3(df)) # 4

\* The tier of a value: Low (1) for [e0, e1], Medium (2) for (e1, e2],
\* High (3) for (e2, e3].
Tier(df, x) ==
    IF 3 * x <= Edge3(df, 1) THEN 1
    ELSE IF 3 * x <= Edge3(df, 2) THEN 2
    ELSE 3

\* pd.crosstab(collab_status, popularity_tier): the count of every
\* (status, tier) pair; is_collaboration 0 is 'Solo', 1 'Collaboration'.
Crosstab(df) ==
    [status \in {0, 1}, tier \in 1..3 |->
        Cardinality({ k \in 1..Len(df) :
            df[k].is_collaboration = status /\ Tier(df, df[k].popularity) = tier })]

\* perform_chi_square_test(df): the contingency table, or the error raised
\* before there is one.
perform_chi_square_test(df) ==
    IF QcutRaises(df)
    THEN [error |-> "ValueError", contingency |-> [status \in {0, 1}, tier \in 1..3 |-> 0]]
    ELSE [error |-> "", contingency |-> Crosstab(df)]

\* contingency.sum(axis=1).sum() and contingency.sum(axis=0).sum()
RowSumsTotal(c) == SumSeq([s \in 1..2 |-> SumSeq([t \in 1..3 |-> c[s - 1, t]])])
ColSumsTotal(c) == SumSeq([t \in 1..3 |-> SumSeq([s \in 1..2 |-> c[s - 1, t]])])

CountWhere(df, is_collab) ==
    Cardinality({ k \in 1..Len(df) : df[k].is_collaboration = is_collab })

\* The files of one complete analysis.
OutputFiles ==
    {"viz1_boxplot_popularity.png", "viz2_collab_by_genre.png",
     "viz3_heatmap_genre_collab.png", "viz4_chi_square_heatmap.png",
     "analysis_results.txt"}

\* A plausible slip: main goes on without looking whether df is empty.
analyze_main_no_empty_check(d) ==
    LET df == get_track_data(d)
        base == [report |-> "", join_queries |-> 1, tests |-> {},
                 files |-> {}, error |-> ""]
    IN  IF CountWhere(df, 1) = 0
        THEN [base EXCEPT !.report = "No collaborations detected"]
        ELSE IF CountWhere(df, 0) = 0
        THEN [base EXCEPT !.tests = {"mann_whitney", "chi_square"},
                          !.error = "KeyError"]
        ELSE [base EXCEPT !.report = "ANALYSIS COMPLETE",
                          !.tests = {"mann_whitney", "chi_square"},
                          !.files = OutputFiles]

\* analyze_visualize.main(): what one run does.  join_queries counts the
\* executions of the join query of get_track_data, tests the statistical
\* tests called, files the files written.  Only collab_count is tested
\* before the analysis: without a solo track both tests are still called,
\* and create_boxplot_popularity raises KeyError at means['Solo'] before
\* the first file is saved.
analyze_main(d) ==
    LET df == get_track_data(d)
        base == [report |-> "", join_queries |-> 1, tests |-> {},
                 files |-> {}, error |-> ""]
    IN  IF df = <<>> THEN [base EXCEPT !.report = "No data found"]
        ELSE IF CountWhere(df, 1) = 0
        THEN [base EXCEPT !.report = "No collaborations detected"]
        ELSE IF perform_chi_square_test(df).error # ""
        THEN [base EXCEPT !.tests = {"mann_whitney", "chi_square"},
                          !.error = perform_chi_square_test(df).error]
        ELSE IF CountWhere(df, 0) = 0
        THEN [base EXCEPT !.tests = {"mann_whitney", "chi_square"},
                          !.error = "KeyError"]
        ELSE [base EXCEPT !.report = "ANALYSIS COMPLETE",
                          !.tests = {"mann_whitney", "chi_square"},
                          !.files = OutputFiles]

(***************************************************************************)
(* Inputs of normalize_genre: raw tags built from fragments of            *)
(* the tags the services return.                                           *)
(***************************************************************************)

MaxTagFragments == 2

TagFragments ==
    { <<"H", "i", "p">>,
      <<" ">>,
      <<"-">>,
      <<"h", "o", "p">>,
      <<"H", "o", "p">>,
      <<"P", "o", "p">>,
      <<"r", "a", "p">>,
      <<"R", "&", "B">>,
      <<"R", "o", "c", "k">>,
      <<"j", "a", "z", "z">>,
      <<"S", "o", "u", "l">>,
      <<"K">>,
      <<"t", "e", "c", "h", "n", "o">>,
      <<"U", "n", "k", "n", "o", "w", "n">>,
      <<"i", "n", "d", "u", "s", "t", "r", "i", "a", "l", " ", "m", "e", "t", "a", "l">>,
      <<"c", "l", "a", "s", "s", "i", "c", "a", "l">>,
      <<"h", "o", "u", "s", "e">>,
      <<"L", "a", "t", "i", "n">>,
      <<"/">>,
      <<"c", "o", "u", "n", "t", "r", "y">> }

RawTags ==
    {None} \cup
    { Concat(fs) : fs \in UNION { [1..n -> TagFragments] : n \in 0..MaxTagFragments } }

\* A result that has not been computed yet.
Unset == <<"<unset>">>

(***************************************************************************)
(* Inputs of the pipeline: what the three services answer.                 *)
(***************************************************************************)

\* The Deezer catalogue: the track dict fetch_deezer_charts builds for each
\* Deezer id (genre = None stands for a dict without a 'genre' key).
DeezerIds == {1, 2}

DeezerTrack(id) ==
    IF id = 1
    THEN [deezer_id |-> 1, title |-> <<"Stay">>,
          artist_name |-> <<"D", "r", "a", "k", "e">>,
          popularity |-> 10, genre |-> None]
    ELSE [deezer_id |-> id, title |-> <<"Stay", "(feat.", "Drake)">>,
          artist_name |-> <<"A", "d", "e", "l", "e">>,
          popularity |-> 20, genre |-> None]

\* The same track with a 'genre' key (the "simulated data" case of
\* store_tracks).
SimulatedTrack(id) == [DeezerTrack(id) EXCEPT !.genre = <<"P", "o", "p">>]

\* The longest list of tracks handed to store_tracks.
MaxBatchLen == 2

\* The track lists fetch_deezer_charts can build from a response.
Batches ==
    UNION { { [k \in 1..n |-> DeezerTrack(ids[k])] : ids \in [1..n -> DeezerIds] } :
            n \in 0..MaxBatchLen }

\* Track lists whose dicts carry a genre.
SimulatedBatches ==
    UNION { { [k \in 1..n |-> SimulatedTrack(ids[k])] : ids \in [1..n -> DeezerIds] } :
            n \in 1..MaxBatchLen }

\* What the Deezer request can do: raise a RequestException, or answer
\* with the data of some tracks.
DeezerResponses ==
    {[failed |-> TRUE, data |-> <<>>]} \cup
    { [failed |-> FALSE, data |-> b] : b \in Batches }

\* What fetch_genre_for_artist can return: None (no artist, no tag, or the
\* request failed three times) or the highest-scoring tag.
MusicBrainzAnswers ==
    { None, <<"h", "i", "p", " ", "h", "o", "p">> }

\* What search_itunes can return: nothing, or the first result.
ItunesAnswers ==
    { NoResult,
      <<[itunes_id |-> 1, itunes_genre |-> <<"J", "a", "z", "z">>]>>,
      <<[itunes_id |-> 2, itunes_genre |-> None]>> }

(***************************************************************************)
(* State                                                                   *)
(***************************************************************************)

VARIABLES
    tables_exist,         \* whether create_database has created the tables
    tracks,               \* table tracks
    genres,               \* table genres
    track_genres,         \* table track_genres
    itunes_tracks,        \* table itunes_tracks
    collaboration_stats,  \* table collaboration_stats
    last,                 \* what the last operation did and reported
    raw_tag,              \* the tag handed to normalize_genre
    pd_category,          \* what process_data.normalize_genre returned for it
    av_category,          \* what analyze_visualize.normalize_genre returned
    df,                   \* the DataFrame handed to perform_chi_square_test
    chi,                  \* what perform_chi_square_test returned for it
    http,                 \* one gather run seen at the level of its HTTP
                          \* requests and sleeps
    runs,                 \* repeated runs of one gather stage
    ra                    \* one execution of run_all.main

vars == <<tables_exist, tracks, genres, track_genres, itunes_tracks,
          collaboration_stats, last, raw_tag, pd_category, av_category, df, chi,
          http, runs, ra>>

\* The tables as one value.
DB ==
    [tracks |-> tracks, genres |-> genres, track_genres |-> track_genres,
     itunes_tracks |-> itunes_tracks, collaboration_stats |-> collaboration_stats]

\* The tables become d.
SetDB(d) ==
    /\ tracks' = d.tracks
    /\ genres' = d.genres
    /\ track_genres' = d.track_genres
    /\ itunes_tracks' = d.itunes_tracks
    /\ collaboration_stats' = d.collaboration_stats

\* The record of an operation, before its results are filled in.
Obs(op) ==
    [op |-> op,               \* the entry point that ran
     error |-> "",            \* the exception it ended with, "" for none
     report |-> "",           \* the message of its final status
     request_failed |-> FALSE,\* the HTTP request raised a RequestException
     store_called |-> FALSE,  \* store_tracks was called
     attempted |-> 0,         \* the tracks store_tracks looped over
     truncated |-> FALSE,     \* the batch was longer than that
     ret |-> 0,               \* the count the stage returned
     join_queries |-> 0,      \* analyze: executions of the join query
     tests |-> {},            \* analyze: statistical tests called
     files |-> {}]            \* analyze: files written

\* Any access to a table that does not exist raises
\* sqlite3.OperationalError (pandas re-raises it as DatabaseError in
\* get_track_data), which only check_database_status and check_data_status
\* catch.
NoTables(op) ==
    /\ ~tables_exist
    /\ last' = [Obs(op) EXCEPT !.error = "OperationalError"]
    /\ UNCHANGED <<tables_exist, tracks, genres, track_genres, itunes_tracks,
                   collaboration_stats>>

DBInit ==
    /\ tables_exist = FALSE
    /\ tracks = {}
    /\ genres = {}
    /\ track_genres = {}
    /\ itunes_tracks = {}
    /\ collaboration_stats = {}
    /\ last = Obs("start")

NormIdle == raw_tag = None /\ pd_category = Unset /\ av_category = Unset

ChiIdle == df = <<>> /\ chi = [error |-> "unset", contingency |-> <<>>]

\* No gather run is followed request by request.
HttpOff ==
    [module |-> "none", pc |-> "done", track |-> 0, attempt |-> 0,
     requests |-> 0, total_requests |-> 0, since |-> 0, waits |-> <<>>,
     response |-> "none", result |-> "none"]

\* No series of runs is followed.
RunsOff == [stage |-> "none"]

\* run_all.main is not executing.
RunAllOff == [pc |-> "off"]

AuxIdle == http = HttpOff /\ runs = RunsOff /\ ra = RunAllOff

Init == DBInit /\ NormIdle /\ ChiIdle /\ AuxIdle

\* The pipeline leaves the variables of SpecNorm and SpecChi alone.
FunctionVarsIdle ==
    UNCHANGED <<raw_tag, pd_category, av_category, df, chi, http, runs, ra>>

\* SpecNorm and SpecChi leave the database alone.
DBIdle ==
    UNCHANGED <<tables_exist, tracks, genres, track_genres, itunes_tracks,
                collaboration_stats, last>>

(***************************************************************************)
(* Operations of the pipeline                                              *)
(***************************************************************************)

\* The five tables, without rows.
EmptyDB ==
    [tracks |-> {}, genres |-> {}, track_genres |-> {}, itunes_tracks |-> {},
     collaboration_stats |-> {}]

\* A plausible slip: a setup that drops the tables before creating them.
create_database_from_scratch(d) == EmptyDB

\* The rows after create_database(): CREATE TABLE IF NOT EXISTS creates
\* the tables that are missing and leaves those that exist as they are.
create_database(d) == d

\* database_setup.create_database(): CREATE TABLE IF NOT EXISTS, five
\* times.
CreateDatabaseRun ==
    /\ tables_exist' = TRUE
    /\ SetDB(create_database(DB))
    /\ last' = Obs("create_database")

CreateDatabase == CreateDatabaseRun /\ FunctionVarsIdle

\* database_setup.check_database_status(): the row count of every table;
\* for a table that does not exist the OperationalError is caught, the
\* count is 0 and "Table does not exist" is printed.  ret is
\* counts['tracks'].
CheckDatabaseStatus ==
    /\ last' = [Obs("check_database_status") EXCEPT
                   !.ret = IF tables_exist THEN Cardinality(tracks) ELSE 0,
                   !.report = IF tables_exist THEN "row counts"
                              ELSE "Table does not exist"]
    /\ UNCHANGED <<tables_exist, tracks, genres, track_genres, itunes_tracks,
                   collaboration_stats>>
    /\ FunctionVarsIdle

\* gather_deezer.store_tracks(b), called on its own.
StoreTracks(b) ==
    \/ NoTables("store_tracks")
    \/ /\ tables_exist
       /\ LET r == store_tracks(DB, b)
          IN  /\ SetDB(r.db)
              /\ last' = [Obs("store_tracks") EXCEPT
                             !.store_called = TRUE,
                             !.attempted = Len(SliceDeezer(b)),
                             !.truncated = Len(b) > Len(SliceDeezer(b)),
                             !.ret = r.ret]
       /\ UNCHANGED tables_exist

StoreTracksCall ==
    /\ \E b \in SimulatedBatches : StoreTracks(b)
    /\ FunctionVarsIdle

\* gather_deezer.main(): fetch_deezer_charts, then store_tracks when it
\* returned any track.
GatherDeezerRun ==
    \/ NoTables("gather_deezer")
    \/ /\ tables_exist
       /\ \E response \in DeezerResponses :
            LET ts == fetch_deezer_charts(response)
                r  == store_tracks(DB, ts)
            IN  IF ts # <<>>
                THEN /\ SetDB(r.db)
                     /\ last' = [Obs("gather_deezer") EXCEPT
                                    !.request_failed = response.failed,
                                    !.store_called = TRUE,
                                    !.attempted = Len(SliceDeezer(ts)),
                                    !.truncated = Len(ts) > Len(SliceDeezer(ts)),
                                    !.ret = r.ret,
                                    !.report = "stored"]
                ELSE /\ last' = [Obs("gather_deezer") EXCEPT
                                    !.request_failed = response.failed,
                                    !.report = "No tracks retrieved"]
                     /\ UNCHANGED <<tracks, genres, track_genres, itunes_tracks,
                                    collaboration_stats>>
       /\ UNCHANGED tables_exist

GatherDeezerMain == GatherDeezerRun /\ FunctionVarsIdle

\* gather_musicbrainz.main()
GatherMusicbrainzRun ==
    \/ NoTables("gather_musicbrainz")
    \/ /\ tables_exist
       /\ tracks = {}
       /\ last' = [Obs("gather_musicbrainz") EXCEPT !.report = "No tracks in database"]
       /\ UNCHANGED <<tables_exist, tracks, genres, track_genres, itunes_tracks,
                      collaboration_stats>>
    \/ /\ tables_exist
       /\ tracks # {}
       /\ \E fetched \in [{ TracksToProcess(DB)[k] : k \in 1..Len(TracksToProcess(DB)) }
                            -> MusicBrainzAnswers] :
            LET r == assign_genres_to_tracks(DB, fetched)
            IN  /\ SetDB(r.db)
                /\ last' = [Obs("gather_musicbrainz") EXCEPT
                               !.ret = r.ret,
                               !.report = IF TracksWithoutGenre(r.db) = <<>>
                                          THEN "COMPLETE"
                                          ELSE "tracks still need genres"]
       /\ UNCHANGED tables_exist

GatherMusicbrainzMain == GatherMusicbrainzRun /\ FunctionVarsIdle

\* gather_itunes.main()
GatherItunesRun ==
    \/ NoTables("gather_itunes")
    \/ /\ tables_exist
       /\ get_tracks_without_itunes(DB) = <<>>
       /\ last' = [Obs("gather_itunes") EXCEPT
                      !.report = IF tracks = {} THEN "No tracks in database"
                                 ELSE "All tracks already have iTunes data"]
       /\ UNCHANGED <<tables_exist, tracks, genres, track_genres, itunes_tracks,
                      collaboration_stats>>
    \/ /\ tables_exist
       /\ get_tracks_without_itunes(DB) # <<>>
       /\ \E found \in [{ get_tracks_without_itunes(DB)[k] :
                            k \in 1..Len(get_tracks_without_itunes(DB)) }
                          -> ItunesAnswers] :
            LET r == ItunesLoop(DB, get_tracks_without_itunes(DB), found, 0)
            IN  /\ SetDB(r.db)
                /\ last' = [Obs("gather_itunes") EXCEPT
                               !.ret = r.ret, !.report = "stored"]
       /\ UNCHANGED tables_exist

GatherItunesMain == GatherItunesRun /\ FunctionVarsIdle

\* process_data.calculate_collaboration_stats(), called on its own.
CalculateCollaborationStatsRun ==
    \/ NoTables("calculate_collaboration_stats")
    \/ /\ tables_exist
       /\ LET r == calculate_collaboration_stats(DB)
          IN  /\ SetDB(r.db)
              /\ last' = [Obs("calculate_collaboration_stats") EXCEPT
                             !.ret = r.ret, !.error = r.error]
       /\ UNCHANGED tables_exist

CalculateCollaborationStats == CalculateCollaborationStatsRun /\ FunctionVarsIdle

\* process_data.main(): the statistics are calculated when
\* check_data_status says the data is ready.
ProcessDataRun ==
    \/ /\ ~check_data_status(DB, tables_exist)
       /\ last' = [Obs("process_data") EXCEPT !.report = "Not enough data to process"]
       /\ UNCHANGED <<tables_exist, tracks, genres, track_genres, itunes_tracks,
                      collaboration_stats>>
    \/ /\ check_data_status(DB, tables_exist)
       /\ LET r == calculate_collaboration_stats(DB)
          IN  /\ SetDB(r.db)
              /\ last' = [Obs("process_data") EXCEPT
                             !.ret = r.ret, !.error = r.error,
                             !.report = IF r.error = "" THEN "stat records created"
                                        ELSE ""]
       /\ UNCHANGED tables_exist

ProcessDataMain == ProcessDataRun /\ FunctionVarsIdle

\* analyze_visualize.main()
AnalyzeRun ==
    \/ NoTables("analyze_visualize")
    \/ /\ tables_exist
       /\ LET r == analyze_main(DB)
          IN  last' = [Obs("analyze_visualize") EXCEPT
                          !.report = r.report, !.error = r.error,
                          !.join_queries = r.join_queries,
                          !.tests = r.tests, !.files = r.files]
       /\ UNCHANGED <<tables_exist, tracks, genres, track_genres, itunes_tracks,
                      collaboration_stats>>

AnalyzeMain == AnalyzeRun /\ FunctionVarsIdle

Next ==
    \/ CreateDatabase
    \/ CheckDatabaseStatus
    \/ StoreTracksCall
    \/ GatherDeezerMain
    \/ GatherMusicbrainzMain
    \/ GatherItunesMain
    \/ CalculateCollaborationStats
    \/ ProcessDataMain
    \/ AnalyzeMain

\* The pipeline: the operations in any order, any number of times.
Spec == Init /\ [][Next]_vars

(***************************************************************************)
(* Genre normalisation applied to one raw tag by both stages               *)
(***************************************************************************)

NormInit ==
    /\ DBInit
    /\ ChiIdle
    /\ AuxIdle
    /\ raw_tag \in RawTags
    /\ pd_category = Unset
    /\ av_category = Unset

\* process_data applies normalize_genre to the tag.
NormalizeInProcessData ==
    /\ pd_category = Unset
    /\ pd_category' = PD_normalize_genre(raw_tag)
    /\ UNCHANGED <<raw_tag, av_category, df, chi, http, runs, ra>>
    /\ DBIdle

\* analyze_visualize applies normalize_genre to the tag.
NormalizeInAnalyze ==
    /\ av_category = Unset
    /\ av_category' = AV_normalize_genre(raw_tag)
    /\ UNCHANGED <<raw_tag, pd_category, df, chi, http, runs, ra>>
    /\ DBIdle

NormNext == NormalizeInProcessData \/ NormalizeInAnalyze

SpecNorm == NormInit /\ [][NormNext]_vars

(***************************************************************************)
(* perform_chi_square_test applied to one DataFrame                        *)
(***************************************************************************)

\* The longest DataFrame and the largest popularity considered.
MaxRecords == 4
MaxPopularity == 2

\* The DataFrames with at least one solo and one collaboration track.
DataFrames ==
    { f \in UNION { [1..n -> [popularity : 0..MaxPopularity,
                              is_collaboration : {0, 1},
                              genre : {s_Unknown}]] : n \in 2..MaxRecords } :
        CountWhere(f, 0) >= 1 /\ CountWhere(f, 1) >= 1 }

ChiInit ==
    /\ DBInit
    /\ NormIdle
    /\ AuxIdle
    /\ df \in DataFrames
    /\ chi = [error |-> "unset", contingency |-> <<>>]

PerformChiSquareTest ==
    /\ chi.error = "unset"
    /\ chi' = perform_chi_square_test(df)
    /\ UNCHANGED <<raw_tag, pd_category, av_category, df, http, runs, ra>>
    /\ DBIdle

ChiNext == PerformChiSquareTest

SpecChi == ChiInit /\ [][ChiNext]_vars

(***************************************************************************)
(* One gather run seen at the level of its HTTP requests and sleeps:       *)
(* gather_itunes.main with search_itunes, and assign_genres_to_tracks with *)
(* fetch_genre_for_artist.  Times are in tenths of a second.               *)
(***************************************************************************)

\* gather_itunes.RATE_LIMIT_DELAY (2.5 s) and MAX_RETRIES.
IT_RATE_LIMIT_DELAY == 25
IT_MAX_RETRIES == 3

\* gather_musicbrainz.RATE_LIMIT_DELAY (1.1 s), MAX_RETRIES, and the
\* time.sleep(2) before a retry.
MB_RATE_LIMIT_DELAY == 11
MB_MAX_RETRIES == 3
MB_RETRY_WAIT == 20

\* The tracks one followed run looks up.
HttpTracks == 2

\* What one request can meet: a result, no result, a 403 or 429 status,
\* another error status (raise_for_status raises HTTPError, which is a
\* RequestException), or a connection error or timeout.
OkResponses == {"found", "empty"}
RateLimitedResponses == {"status_403", "status_429"}
OtherFailures == {"status_500", "connection_error"}

\* What search_itunes can meet.
ItunesResponses == OkResponses \cup RateLimitedResponses \cup OtherFailures

\* What fetch_genre_for_artist can meet; "malformed" is an answer whose
\* first tag has no 'name' (KeyError).
MbResponses ==
    OkResponses \cup {"malformed"} \cup RateLimitedResponses \cup OtherFailures

\* What raises a RequestException in fetch_genre_for_artist: every error
\* status goes through raise_for_status.
MbRequestExceptions == RateLimitedResponses \cup OtherFailures

\* A variant: the same wait before every retry.
ItunesBackoffDelayFixed(attempt) == IT_RATE_LIMIT_DELAY

\* delay = RATE_LIMIT_DELAY * (2 ** attempt)
ItunesBackoffDelay(attempt) == IT_RATE_LIMIT_DELAY * (2 ^ attempt)

\* A variant: the wait before a retry doubles with every attempt.
MbRetryWaitExponential(attempt) == MB_RETRY_WAIT * (2 ^ attempt)

\* time.sleep(2)  # Wait before retry
MbRetryWait(attempt) == MB_RETRY_WAIT

\* A variant: main sleeps only after a track that was found.
MainLoopSleepWhenFound(result) ==
    IF result = "data" THEN IT_RATE_LIMIT_DELAY ELSE 0

\* gather_itunes.main: time.sleep(RATE_LIMIT_DELAY) after every track,
\* found or not.
MainLoopSleep(result) == IT_RATE_LIMIT_DELAY

\* The connector is called for the next track, or the loop ends.
HttpNextTrack(h, first_pc) ==
    IF h.track < HttpTracks
    THEN [h EXCEPT !.track = @ + 1, !.pc = first_pc, !.attempt = 0,
                   !.requests = 0, !.waits = <<>>, !.response = "none",
                   !.result = "pending"]
    ELSE [h EXCEPT !.pc = "done"]

\* The other variables while a run is followed request by request.
HttpFrame ==
    UNCHANGED <<tables_exist, tracks, genres, track_genres, itunes_tracks,
                collaboration_stats, last, raw_tag, pd_category, av_category,
                df, chi, runs, ra>>

HttpInit ==
    /\ DBInit
    /\ NormIdle
    /\ ChiIdle
    /\ runs = RunsOff
    /\ ra = RunAllOff
    /\ \E module \in {"itunes", "musicbrainz"} :
          http = [module |-> module,
                  pc |-> IF module = "itunes" THEN "request" ELSE "rate_sleep",
                  track |-> 1, attempt |-> 0, requests |-> 0,
                  total_requests |-> 0, since |-> 0, waits |-> <<>>,
                  response |-> "none", result |-> "pending"]

\* search_itunes: requests.get and what follows from the response.  A 403
\* or 429 status and a RequestException are retried while attempt <
\* MAX_RETRIES - 1, and end the call with None otherwise.
ItunesRequest ==
    /\ http.module = "itunes"
    /\ http.pc = "request"
    /\ \E response \in ItunesResponses :
          LET failed == response \in RateLimitedResponses \cup OtherFailures
              retry  == failed /\ http.attempt < IT_MAX_RETRIES - 1
          IN  http' = [http EXCEPT
                          !.requests = @ + 1,
                          !.total_requests = @ + 1,
                          !.since = 0,
                          !.response = response,
                          !.pc = IF retry THEN "backoff" ELSE "returned",
                          !.result = IF retry THEN "pending"
                                     ELSE IF response = "found" THEN "data"
                                     ELSE "none"]
    /\ HttpFrame

\* search_itunes: time.sleep(delay); continue
ItunesBackoff ==
    /\ http.module = "itunes"
    /\ http.pc = "backoff"
    /\ http' = [http EXCEPT
                   !.waits = Append(@, ItunesBackoffDelay(http.attempt)),
                   !.since = @ + ItunesBackoffDelay(http.attempt),
                   !.attempt = @ + 1,
                   !.pc = "request"]
    /\ HttpFrame

\* gather_itunes.main after search_itunes returned: the result is stored
\* (no request), then time.sleep(RATE_LIMIT_DELAY), then the next track.
ItunesMainSleep ==
    /\ http.module = "itunes"
    /\ http.pc = "returned"
    /\ http' = HttpNextTrack([http EXCEPT !.since = @ + MainLoopSleep(http.result)],
                             "request")
    /\ HttpFrame

\* fetch_genre_for_artist: time.sleep(RATE_LIMIT_DELAY) at the start of
\* every attempt.
MbRateSleep ==
    /\ http.module = "musicbrainz"
    /\ http.pc = "rate_sleep"
    /\ http' = [http EXCEPT !.since = @ + MB_RATE_LIMIT_DELAY, !.pc = "request"]
    /\ HttpFrame

\* fetch_genre_for_artist: requests.get, raise_for_status and what follows.
\* Any RequestException is retried while attempt < MAX_RETRIES - 1; a
\* KeyError or IndexError ends the call with None.
MbRequest ==
    /\ http.module = "musicbrainz"
    /\ http.pc = "request"
    /\ \E response \in MbResponses :
          LET retry == response \in MbRequestExceptions
                       /\ http.attempt < MB_MAX_RETRIES - 1
          IN  http' = [http EXCEPT
                          !.requests = @ + 1,
                          !.total_requests = @ + 1,
                          !.since = 0,
                          !.response = response,
                          !.pc = IF retry THEN "retry_sleep" ELSE "returned",
                          !.result = IF retry THEN "pending"
                                     ELSE IF response = "found" THEN "data"
                                     ELSE "none"]
    /\ HttpFrame

\* fetch_genre_for_artist: time.sleep(2); continue
MbRetrySleep ==
    /\ http.module = "musicbrainz"
    /\ http.pc = "retry_sleep"
    /\ http' = [http EXCEPT
                   !.waits = Append(@, MbRetryWait(http.attempt)),
                   !.since = @ + MbRetryWait(http.attempt),
                   !.attempt = @ + 1,
                   !.pc = "rate_sleep"]
    /\ HttpFrame

\* assign_genres_to_tracks after fetch_genre_for_artist returned: the genre
\* is stored (no request, no sleep), then the next track.
MbNextTrack ==
    /\ http.module = "musicbrainz"
    /\ http.pc = "returned"
    /\ http' = HttpNextTrack(http, "rate_sleep")
    /\ HttpFrame

HttpNext ==
    \/ ItunesRequest
    \/ ItunesBackoff
    \/ ItunesMainSleep
    \/ MbRateSleep
    \/ MbRequest
    \/ MbRetrySleep
    \/ MbNextTrack

SpecHttp == HttpInit /\ [][HttpNext]_vars

(***************************************************************************)
(* An enrichment stage run again and again on a database that holds some   *)
(* tracks and receives no new ones: gather_musicbrainz.main or             *)
(* gather_itunes.main, "run multiple times" as their docstrings say.       *)
(***************************************************************************)

\* The most tracks the database holds when the series of runs starts.
MaxRunTracks == 3

\* The runs of gather_musicbrainz.main that are counted: one more than the
\* tracks, so that a run with nothing left to do is part of the series.
MaxRuns == MaxRunTracks + 1

\* The database after store_tracks has been called with each of the lists
\* of batches, in order.
RECURSIVE LoadedDB(_, _)
LoadedDB(d, batches) ==
    IF batches = <<>> THEN d
    ELSE LoadedDB(store_tracks(d, Head(batches)).db, Tail(batches))

\* The databases the series start from: up to MaxRunTracks tracks, stored
\* one call at a time, with or without a genre of their own.
LoadedDBs ==
    UNION { { LoadedDB(EmptyDB, [k \in 1..n |->
                                   IF with_genre[k]
                                   THEN <<SimulatedTrack(ids[k])>>
                                   ELSE <<DeezerTrack(ids[k])>>]) :
              ids \in [1..n -> 1..MaxRunTracks], with_genre \in [1..n -> BOOLEAN] } :
            n \in 0..MaxRunTracks }

\* The track_ids with no itunes_tracks row.
TracksWithoutItunes(d) ==
    { t.track_id : t \in { r \in d.tracks :
          ~ \E it \in d.itunes_tracks : it.track_id = r.track_id } }

RunsFrame ==
    UNCHANGED <<raw_tag, pd_category, av_category, df, chi, http, ra>>

RunsInit ==
    /\ tables_exist = TRUE
    /\ \E d \in LoadedDBs :
         /\ tracks = d.tracks
         /\ genres = d.genres
         /\ track_genres = d.track_genres
         /\ itunes_tracks = d.itunes_tracks
         /\ collaboration_stats = d.collaboration_stats
         /\ \E stage \in {"gather_musicbrainz", "gather_itunes"} :
              runs = [stage |-> stage,
                      n0 |-> Len(TracksWithoutGenre(d)),  \* tracks without a genre at the start
                      lacking |-> TracksWithoutItunes(d), \* tracks without iTunes data at the start
                      count |-> 0,                        \* runs so far (gather_musicbrainz)
                      odd |-> FALSE,                      \* parity of the runs so far (gather_itunes)
                      linked |-> 0,                       \* what the last run returned
                      reported |-> 0,                     \* the N of "Run this script N more time(s)", 0 if not printed
                      searched |-> {}]                    \* tracks handed to search_itunes so far
    /\ last = Obs("start")
    /\ NormIdle
    /\ ChiIdle
    /\ http = HttpOff
    /\ ra = RunAllOff

\* runs_needed = (remaining // MAX_ITEMS_PER_RUN) + 1
runs_needed(remaining) == (remaining \div MB_MAX_ITEMS_PER_RUN) + 1

\* One more run of gather_musicbrainz.main.  When tracks are left without
\* a genre after it, main prints "Run this script N more time(s)".
MusicbrainzRunAgain ==
    /\ runs.stage = "gather_musicbrainz"
    /\ runs.count < MaxRuns
    /\ GatherMusicbrainzRun
    /\ runs' = [runs EXCEPT
                  !.count = @ + 1,
                  !.linked = last'.ret,
                  !.reported = IF tracks = {} \/ TracksWithoutGenre(DB') = <<>>
                               THEN 0
                               ELSE runs_needed(Len(TracksWithoutGenre(DB')))]
    /\ RunsFrame

\* One more run of gather_itunes.main
ItunesRunAgain ==
    /\ runs.stage = "gather_itunes"
    /\ GatherItunesRun
    /\ runs' = [runs EXCEPT
                  !.odd = ~@,
                  !.searched = @ \cup { get_tracks_without_itunes(DB)[k] :
                                          k \in 1..Len(get_tracks_without_itunes(DB)) }]
    /\ RunsFrame

RunsNext == MusicbrainzRunAgain \/ ItunesRunAgain

\* What every run of gather_musicbrainz.main in the series does to the
\* record of the series.
MusicbrainzRunCounted ==
    /\ runs.stage = "gather_musicbrainz"
    /\ runs.count < MaxRuns
    /\ \E linked \in 0..MB_MAX_ITEMS_PER_RUN, reported \in 0..(MaxRunTracks + 1) :
         runs' = [runs EXCEPT !.count = @ + 1, !.linked = linked,
                              !.reported = reported]

\* What every run of gather_itunes.main in the series does to it.
ItunesRunCounted ==
    /\ runs.stage = "gather_itunes"
    /\ \E searched \in SUBSET (1..MaxRunTracks) :
         runs' = [runs EXCEPT !.odd = ~@, !.searched = searched]

\* Each script is run again as long as the user wishes, and a run that is
\* started returns: the series never stops by itself.  The only steps that
\* change `runs` are the runs themselves.
SpecRuns ==
    RunsInit /\ [][RunsNext]_vars
             /\ WF_runs(MusicbrainzRunCounted) /\ WF_runs(ItunesRunCounted)

(***************************************************************************)
(* gather_deezer.main run again and again against a search API that        *)
(* answers each query with the same tracks every time.  The query of a run *)
(* is chosen from the number of rows in tracks.                            *)
(***************************************************************************)

\* len(search_queries), 28 in the code, scaled down.
NumQueries == 2

\* The divisor of track_count in query_index, 10 in the code, scaled down.
QueryBlock == 2

\* limit=25 of the search URL, scaled down: the most tracks in one answer.
ApiLimit == 3

\* The "100+" tracks the runs are meant to collect, scaled down.
TargetTracks == 4

\* The Deezer ids the catalogue holds.
CatalogueIds == 1..TargetTracks

\* The answers a query can get: a non-empty list of at most ApiLimit
\* distinct tracks.
ApiAnswers ==
    { SortedSeq(S) : S \in { T \in SUBSET CatalogueIds :
                               T # {} /\ Cardinality(T) <= ApiLimit } }

\* The deterministic search APIs: one answer for each query.
DeterministicApis == [0..(NumQueries - 1) -> ApiAnswers]

\* The distinct tracks an API offers over all the queries.
Offered(api) ==
    UNION { { api[q][k] : k \in 1..Len(api[q]) } : q \in DOMAIN api }

\* query_index = (track_count // 10) % len(search_queries)
query_index(track_count) == (track_count \div QueryBlock) % NumQueries

\* The response of the API to the query of this run.
ApiResponse(api, track_count) ==
    [failed |-> FALSE,
     data |-> [k \in 1..Len(api[query_index(track_count)]) |->
                 DeezerTrack(api[query_index(track_count)][k])]]

DeezerRunsInit ==
    /\ tables_exist = TRUE
    /\ tracks = {}
    /\ genres = {}
    /\ track_genres = {}
    /\ itunes_tracks = {}
    /\ collaboration_stats = {}
    /\ last = Obs("start")
    /\ \E api \in DeterministicApis :
         runs = [stage |-> "gather_deezer",
                 api |-> api,       \* what the API answers to each query
                 odd |-> FALSE,     \* parity of the runs so far
                 queries |-> {}]    \* the query indexes used so far
    /\ NormIdle
    /\ ChiIdle
    /\ http = HttpOff
    /\ ra = RunAllOff

\* One more run of gather_deezer.main.  An answer has at most 25 tracks and
\* MAX_ITEMS_PER_RUN is 25 or 200, so tracks[:MAX_ITEMS_PER_RUN] in
\* store_tracks keeps the whole answer.
DeezerRunAgain ==
    /\ runs.stage = "gather_deezer"
    /\ LET track_count == Cardinality(tracks)
           ts == fetch_deezer_charts(ApiResponse(runs.api, track_count))
           r  == StoreLoop(DB, ts, 0)
       IN  /\ SetDB(r.db)
           /\ last' = [Obs("gather_deezer") EXCEPT
                          !.store_called = TRUE,
                          !.attempted = Len(ts),
                          !.ret = r.ret,
                          !.report = IF Cardinality(r.db.tracks) >= TargetTracks
                                     THEN "COMPLETE" ELSE "Need more tracks"]
           /\ runs' = [runs EXCEPT !.odd = ~@,
                                   !.queries = @ \cup {query_index(track_count)}]
    /\ UNCHANGED tables_exist
    /\ RunsFrame

\* What every run of gather_deezer.main does to the record of the series.
DeezerRunCounted ==
    /\ runs.stage = "gather_deezer"
    /\ \E queries \in SUBSET (0..(NumQueries - 1)) :
         runs' = [runs EXCEPT !.odd = ~@, !.queries = queries]

DeezerRunsNext == DeezerRunAgain

\* The script is run again as long as the user wishes.
SpecDeezerRuns ==
    DeezerRunsInit /\ [][DeezerRunsNext]_vars /\ WF_runs(DeezerRunCounted)

(***************************************************************************)
(* run_all.main: one execution, from a database file that does not exist   *)
(* yet.  Each call returns before the next statement runs; an exception    *)
(* that a stage lets escape ends the execution.                            *)
(***************************************************************************)

\* run_all.DEEZER_RUNS (4 in debug mode, 5 in production), scaled down.
DEEZER_RUNS == 2

\* run_all.MUSICBRAINZ_RUNS (2 in debug mode, 5 in production).
MUSICBRAINZ_RUNS == 2

\* run_all.ITUNES_RUNS (2 in debug mode, 5 in production).
ITUNES_RUNS == 2

\* The calls of one step of run_all.main.
RunsOf(stage) ==
    IF stage = "gather_deezer" THEN DEEZER_RUNS
    ELSE IF stage = "gather_musicbrainz" THEN MUSICBRAINZ_RUNS
    ELSE IF stage = "gather_itunes" THEN ITUNES_RUNS
    ELSE 1

\* A plausible slip: the iTunes step placed before the MusicBrainz step.
StageAfterItunesFirst(stage) ==
    IF stage = "create_database" THEN "gather_deezer"
    ELSE IF stage = "gather_deezer" THEN "gather_itunes"
    ELSE IF stage = "gather_itunes" THEN "gather_musicbrainz"
    ELSE IF stage = "gather_musicbrainz" THEN "process_data"
    ELSE IF stage = "process_data" THEN "analyze_visualize"
    ELSE "complete"

\* The step that follows a step in the body of run_all.main.
StageAfter(stage) ==
    IF stage = "create_database" THEN "gather_deezer"
    ELSE IF stage = "gather_deezer" THEN "gather_musicbrainz"
    ELSE IF stage = "gather_musicbrainz" THEN "gather_itunes"
    ELSE IF stage = "gather_itunes" THEN "process_data"
    ELSE IF stage = "process_data" THEN "analyze_visualize"
    ELSE "complete"

\* The position of run_all.main after a call of `stage` has returned, or
\* has raised.
Advance(r, stage, raised) ==
    IF raised
    THEN [r EXCEPT !.pc = "raised", !.log = Append(@, stage)]
    ELSE IF r.i + 1 < RunsOf(stage)
    THEN [r EXCEPT !.i = @ + 1, !.log = Append(@, stage)]
    ELSE [r EXCEPT !.pc = StageAfter(stage), !.i = 0, !.log = Append(@, stage)]

RunAllFrame ==
    UNCHANGED <<raw_tag, pd_category, av_category, df, chi, http, runs>>

RunAllInit ==
    /\ tables_exist = FALSE
    /\ tracks = {}
    /\ genres = {}
    /\ track_genres = {}
    /\ itunes_tracks = {}
    /\ collaboration_stats = {}
    /\ last = Obs("start")
    /\ NormIdle
    /\ ChiIdle
    /\ http = HttpOff
    /\ runs = RunsOff
    /\ ra = [pc |-> "create_database",  \* the step run_all.main is at
             i |-> 0,                   \* the loop variable of that step
             log |-> <<>>,              \* the calls made so far, in order
             calculated |-> FALSE]      \* calculate_collaboration_stats was called

\* Step 1: database_setup.create_database()
RunAllCreateDatabase ==
    /\ ra.pc = "create_database"
    /\ CreateDatabaseRun
    /\ ra' = Advance(ra, "create_database", last'.error # "")
    /\ RunAllFrame

\* Step 2: one iteration of the loop over gather_deezer.main()
RunAllGatherDeezer ==
    /\ ra.pc = "gather_deezer"
    /\ GatherDeezerRun
    /\ ra' = Advance(ra, "gather_deezer", last'.error # "")
    /\ RunAllFrame

\* Step 3: one iteration of the loop over gather_musicbrainz.main()
RunAllGatherMusicbrainz ==
    /\ ra.pc = "gather_musicbrainz"
    /\ GatherMusicbrainzRun
    /\ ra' = Advance(ra, "gather_musicbrainz", last'.error # "")
    /\ RunAllFrame

\* Step 4: one iteration of the loop over gather_itunes.main()
RunAllGatherItunes ==
    /\ ra.pc = "gather_itunes"
    /\ GatherItunesRun
    /\ ra' = Advance(ra, "gather_itunes", last'.error # "")
    /\ RunAllFrame

\* Step 5: process_data.main(), which calls
\* calculate_collaboration_stats when check_data_status says so.
RunAllProcessData ==
    /\ ra.pc = "process_data"
    /\ ProcessDataRun
    /\ ra' = [Advance(ra, "process_data", last'.error # "") EXCEPT
                 !.calculated = check_data_status(DB, tables_exist)]
    /\ RunAllFrame

\* Step 6: analyze_visualize.main()
RunAllAnalyze ==
    /\ ra.pc = "analyze_visualize"
    /\ AnalyzeRun
    /\ ra' = Advance(ra, "analyze_visualize", last'.error # "")
    /\ RunAllFrame

RunAllNext ==
    \/ RunAllCreateDatabase
    \/ RunAllGatherDeezer
    \/ RunAllGatherMusicbrainz
    \/ RunAllGatherItunes
    \/ RunAllProcessData
    \/ RunAllAnalyze

SpecRunAll == RunAllInit /\ [][RunAllNext]_vars

(***************************************************************************)
(* store_tracks called with one batch after another.  The pipeline above   *)
(* is explored with MAX_ITEMS_PER_RUN scaled to one track; here the slice  *)
(* is longer, so that a track can follow a duplicate inside one batch.     *)
(***************************************************************************)

\* gather_deezer.MAX_ITEMS_PER_RUN as scaled for these batches.
StoreMax == 2

\* The longest batch handed to store_tracks here.
StoreBatchLen == 3

\* The Deezer ids of the tracks in the batches.
StoreIds == 1..3

\* The batches: track dicts from the API, or simulated ones with a genre.
StoreBatches ==
    UNION { { [k \in 1..n |-> IF with_genre THEN SimulatedTrack(ids[k])
                              ELSE DeezerTrack(ids[k])] :
              ids \in [1..n -> StoreIds], with_genre \in BOOLEAN } :
            n \in 0..StoreBatchLen }

\* A plausible slip: a plain INSERT without the except clause.  The
\* IntegrityError of the first duplicate escapes before conn.commit(), and
\* the rows of the batch are lost with the connection.
store_tracks_failing_on_duplicate(d, ts) ==
    IF \E k \in 1..Len(Limit(ts, StoreMax)) :
          \/ \E t \in d.tracks : t.deezer_id = ts[k].deezer_id
          \/ \E j \in 1..(k - 1) : ts[j].deezer_id = ts[k].deezer_id
    THEN [db |-> d, ret |-> 0]
    ELSE StoreLoop(d, Limit(ts, StoreMax), 0)

\* store_tracks(tracks) with this MAX_ITEMS_PER_RUN.
store_tracks_batch(d, ts) == StoreLoop(d, Limit(ts, StoreMax), 0)

StoreInit ==
    /\ tables_exist = TRUE
    /\ tracks = {}
    /\ genres = {}
    /\ track_genres = {}
    /\ itunes_tracks = {}
    /\ collaboration_stats = {}
    /\ last = Obs("start")
    /\ NormIdle
    /\ ChiIdle
    /\ http = HttpOff
    /\ runs = [stage |-> "store_tracks",
               batch |-> <<>>,    \* the argument of the last call
               before |-> {},     \* the tracks table before it
               ret |-> 0]         \* what it returned
    /\ ra = RunAllOff

\* store_tracks(b)
StoreBatch ==
    /\ runs.stage = "store_tracks"
    /\ \E b \in StoreBatches :
         LET r == store_tracks_batch(DB, b)
         IN  /\ SetDB(r.db)
             /\ last' = [Obs("store_tracks") EXCEPT
                            !.store_called = TRUE,
                            !.attempted = Len(Limit(b, StoreMax)),
                            !.truncated = Len(b) > StoreMax,
                            !.ret = r.ret]
             /\ runs' = [runs EXCEPT !.batch = b, !.before = tracks, !.ret = r.ret]
    /\ UNCHANGED tables_exist
    /\ RunsFrame

StoreNext == StoreBatch

SpecStore == StoreInit /\ [][StoreNext]_vars

(***************************************************************************)
(* gather_census.store_regions, called again and again on its own database *)
(* file (music_income.db).  The regions table is kept in the record of the *)
(* series.  Its schema is not part of the sources: region_name is taken to *)
(* be UNIQUE, the natural key the project skeleton names for it.           *)
(***************************************************************************)

\* gather_census.MAX_ITEMS_PER_RUN (25), scaled down.
CENSUS_MAX_ITEMS_PER_RUN == 2

\* The longest list of regions handed to store_regions.
MaxRegions == 3

\* The lists fetch_census_data can return: region dicts, here their names.
RegionLists ==
    UNION { [1..n -> 1..MaxRegions] : n \in 0..MaxRegions }

\* INSERT OR IGNORE INTO regions: a row whose region_name is present is
\* skipped (rowcount 0).
InsertOrIgnoreRegion(rows, region_name) ==
    IF \E r \in rows : r.region_name = region_name
    THEN [rows |-> rows, rowcount |-> 0]
    ELSE [rows |-> rows \cup {[region_id |-> NextRowId(rows, "region_id"),
                               region_name |-> region_name]},
          rowcount |-> 1]

\* The loop of store_regions over regions[start_idx:end_idx].
RECURSIVE RegionsLoop(_, _, _)
RegionsLoop(rows, rs, stored_count) ==
    IF rs = <<>> THEN [rows |-> rows, ret |-> stored_count]
    ELSE LET ins == InsertOrIgnoreRegion(rows, Head(rs))
         IN  RegionsLoop(ins.rows, Tail(rs), stored_count + ins.rowcount)

\* A store that starts at the head of the list on every call, as
\* store_tracks does.
store_regions_from_start(rows, regions) ==
    RegionsLoop(rows, Limit(regions, CENSUS_MAX_ITEMS_PER_RUN), 0)

\* store_regions(regions): start_idx is the row count, end_idx is
\* min(start_idx + MAX_ITEMS_PER_RUN, len(regions)).
store_regions(rows, regions) ==
    LET start_idx == Cardinality(rows)
        end_idx   == IF start_idx + CENSUS_MAX_ITEMS_PER_RUN < Len(regions)
                     THEN start_idx + CENSUS_MAX_ITEMS_PER_RUN ELSE Len(regions)
    IN  RegionsLoop(rows, SubSeq(regions, start_idx + 1, end_idx), 0)

RegionsInit ==
    /\ tables_exist = FALSE
    /\ tracks = {}
    /\ genres = {}
    /\ track_genres = {}
    /\ itunes_tracks = {}
    /\ collaboration_stats = {}
    /\ last = Obs("start")
    /\ NormIdle
    /\ ChiIdle
    /\ http = HttpOff
    /\ runs = [stage |-> "store_regions",
               regions |-> {},      \* the regions table
               list |-> <<>>,       \* the argument of the last call
               same_list |-> FALSE, \* it was the argument of the call before too
               before |-> {},       \* the regions table before the last call
               ret |-> 0,           \* what the last call returned
               calls |-> 0]         \* calls so far, up to 2
    /\ ra = RunAllOff

\* store_regions(list)
StoreRegionsCall ==
    /\ runs.stage = "store_regions"
    /\ \E list \in RegionLists :
         LET r == store_regions(runs.regions, list)
         IN  runs' = [runs EXCEPT
                         !.regions = r.rows,
                         !.list = list,
                         !.same_list = (runs.calls > 0 /\ list = runs.list),
                         !.before = runs.regions,
                         !.ret = r.ret,
                         !.calls = IF @ < 2 THEN @ + 1 ELSE @]
    /\ UNCHANGED <<tables_exist, tracks, genres, track_genres, itunes_tracks,
                   collaboration_stats, last>>
    /\ RunsFrame

RegionsNext == StoreRegionsCall

SpecRegions == RegionsInit /\ [][RegionsNext]_vars

(***************************************************************************)
(* Properties                                                              *)
(***************************************************************************)

\* C1: track ingestion is idempotent.  In every reachable database state
\* and for every batch, a second store_tracks call with the same batch
\* returns 0 and leaves every table exactly as the first call left it (so
\* it adds no row to tracks).
C1_StoreTracksIdempotent ==
    tables_exist =>
        \A b \in Batches \cup SimulatedBatches :
            LET first  == store_tracks(DB, b)
                second == store_tracks(first.db, b)
            IN  /\ second.ret = 0
                /\ second.db = first.db
                /\ Cardinality(second.db.tracks) = Cardinality(first.db.tracks)

\* A store_tracks call that looped over tracks whose deezer_id were all
\* present already, and stored none of them.
C1_Witness ==
    /\ last.op = "store_tracks"
    /\ last.store_called
    /\ last.attempted > 0
    /\ last.ret = 0
    /\ tracks # {}

\* C2: in one run of a gather stage the rows added to its target table
\* never exceed that module's MAX_ITEMS_PER_RUN: tracks for store_tracks
\* (called on its own or by gather_deezer.main), itunes_tracks for
\* gather_itunes.main, track_genres for assign_genres_to_tracks.
C2_RowsAddedPerRunBounded ==
    [][ /\ last'.op \in {"store_tracks", "gather_deezer"} =>
              Cardinality(tracks') - Cardinality(tracks) <= DZ_MAX_ITEMS_PER_RUN
        /\ last'.op = "gather_itunes" =>
              Cardinality(itunes_tracks') - Cardinality(itunes_tracks)
                  <= IT_MAX_ITEMS_PER_RUN
        /\ last'.op = "gather_musicbrainz" =>
              Cardinality(track_genres') - Cardinality(track_genres)
                  <= MB_MAX_ITEMS_PER_RUN ]_vars

\* A gather_deezer run whose fetched batch was longer than
\* MAX_ITEMS_PER_RUN and that stored exactly MAX_ITEMS_PER_RUN tracks.
C2_Witness ==
    /\ last.op = "gather_deezer"
    /\ last.truncated
    /\ last.ret = DZ_MAX_ITEMS_PER_RUN
    /\ Cardinality(tracks) >= DZ_MAX_ITEMS_PER_RUN

\* Whether the lower-cased tag contains a variant of category k.
HasVariantOf(tag, mappings, k) ==
    \E j \in 1..Len(mappings[k].variants) :
        Contains(Lower(tag), mappings[k].variants[j])

\* What C3 asks of a result cat of normalize_genre for tag under mappings.
NormalizeContract(tag, cat, mappings) ==
    /\ Falsy(tag) => cat = s_other
    /\ (~Falsy(tag) /\ \A k \in 1..Len(mappings) : ~HasVariantOf(tag, mappings, k))
          => cat = s_other
    /\ cat # s_other =>
          /\ ~Falsy(tag)
          /\ \E k \in 1..Len(mappings) :
                mappings[k].genre = cat /\ HasVariantOf(tag, mappings, k)

\* C3: normalize_genre (of process_data and of analyze_visualize, each
\* with its own variant lists) returns "other" for an empty or missing tag
\* and for every tag whose lower-cased text contains no listed variant, and
\* returns another category only when the lower-cased tag contains a
\* variant of that category.
C3_NormalizeContract ==
    /\ pd_category # Unset => NormalizeContract(raw_tag, pd_category, PD_mappings)
    /\ av_category # Unset => NormalizeContract(raw_tag, av_category, AV_mappings)

\* A tag written with capitals that both functions put in a category other
\* than "other".
C3_Witness ==
    /\ raw_tag # Lower(raw_tag)
    /\ pd_category \notin {Unset, s_other}
    /\ av_category \notin {Unset, s_other}

\* C4: for every tag, process_data.normalize_genre and
\* analyze_visualize.normalize_genre return the same category (and neither
\* reads or changes the database).
C4_StagesAgree ==
    /\ (pd_category # Unset /\ av_category # Unset) => pd_category = av_category
    /\ tracks = {} /\ genres = {} /\ track_genres = {} /\ itunes_tracks = {}
    /\ collaboration_stats = {}

\* The genre names of the fixed controlled vocabulary: the categories of
\* normalize_genre and its default.
ControlledVocabulary ==
    { PD_mappings[k].genre : k \in 1..Len(PD_mappings) } \cup {s_other}

\* The name of genre genre_id in rows.
GenreNameOf(rows, genre_id) ==
    (CHOOSE g \in rows : g.genre_id = genre_id).genre_name

\* C5 as stated: every genre name that a gather_musicbrainz run inserts
\* into genres or links to a track through track_genres is a member of the
\* controlled vocabulary.
C5_StoredGenresControlled ==
    [][ last'.op = "gather_musicbrainz" =>
          /\ \A g \in genres' \ genres : g.genre_name \in ControlledVocabulary
          /\ \A tg \in track_genres' \ track_genres :
                GenreNameOf(genres', tg.genre_id) \in ControlledVocabulary ]_vars

\* C5 amended: the stage stores without normalizing.  Every genre name
\* that a gather_musicbrainz run inserts into genres is linked by that run,
\* and every genre it links to a track is named by a tag exactly as the
\* metadata service returned it or, when the service returned none, by
\* guess_genre_from_name of the track's artist.
C5_StoredGenresRaw ==
    [][ last'.op = "gather_musicbrainz" =>
          /\ \A g \in genres' \ genres :
                \E tg \in track_genres' \ track_genres : tg.genre_id = g.genre_id
          /\ \A tg \in track_genres' \ track_genres :
                \/ GenreNameOf(genres', tg.genre_id) \in MusicBrainzAnswers \ {None}
                \/ GenreNameOf(genres', tg.genre_id) =
                       guess_genre_from_name(TrackById(DB, tg.track_id).artist_name) ]_vars

\* A gather_musicbrainz run has linked a track to the genre named by the
\* returned tag "hip hop", which is no category.
C5_Witness ==
    /\ last.op = "gather_musicbrainz"
    /\ last.ret > 0
    /\ \E tg \in track_genres :
          /\ GenreNameOf(genres, tg.genre_id) = <<"h", "i", "p", " ", "h", "o", "p">>
          /\ GenreNameOf(genres, tg.genre_id) \notin ControlledVocabulary

\* C6: for every DataFrame with at least one solo and one collaboration
\* track, perform_chi_square_test builds a contingency table whose row
\* sums and whose column sums both add up to the number of records.
C6_ContingencyAccountsForAll ==
    chi.error # "unset" =>
        /\ chi.error = ""
        /\ RowSumsTotal(chi.contingency) = Len(df)
        /\ ColSumsTotal(chi.contingency) = Len(df)

\* C7 as stated: with 0 rows in tracks, analyze_visualize.main reports
\* that no data was found, performs no join query, runs no statistical
\* test and writes no file.
C7_EmptyNoJoin ==
    (last.op = "analyze_visualize" /\ tables_exist /\ tracks = {}) =>
        /\ last.report = "No data found"
        /\ last.join_queries = 0
        /\ last.tests = {}
        /\ last.files = {}

\* C7 amended: with 0 rows in tracks, analyze_visualize.main executes the
\* join query of get_track_data once, which returns no row, reports that
\* no data was found, runs no statistical test and writes no file.
C7_EmptyOneJoin ==
    (last.op = "analyze_visualize" /\ tables_exist /\ tracks = {}) =>
        /\ get_track_data(DB) = <<>>
        /\ last.report = "No data found"
        /\ last.join_queries = 1
        /\ last.tests = {}
        /\ last.files = {}
        /\ last.error = ""

\* analyze_visualize.main has run on a database whose tracks table is
\* empty.
C7_Witness ==
    /\ last.op = "analyze_visualize"
    /\ tables_exist
    /\ tracks = {}
    /\ last.report = "No data found"

\* C8: after any sequence of operations no two rows of genres have the
\* same genre_name, no two rows of track_genres the same (track_id,
\* genre_id), and no operation has ended with an IntegrityError.
C8_UniqueNamesAndPairs ==
    /\ \A g1, g2 \in genres : g1.genre_name = g2.genre_name => g1 = g2
    /\ \A t1, t2 \in track_genres :
          (t1.track_id = t2.track_id /\ t1.genre_id = t2.genre_id) => t1 = t2
    /\ last.error # "IntegrityError"

\* calculate_collaboration_stats has created a category as a genre beside
\* the genres that the gather stages stored and linked.
C8_Witness ==
    /\ last.op \in {"calculate_collaboration_stats", "process_data"}
    /\ last.ret > 0
    /\ Cardinality(track_genres) > 1
    /\ \E g \in genres :
          /\ g.genre_name \in ControlledVocabulary
          /\ \A tg \in track_genres : tg.genre_id # g.genre_id

\* C9: no operation updates or deletes a row of tracks, genres,
\* track_genres or itunes_tracks (every row of a state is a row of the
\* next state), and rows of collaboration_stats disappear only in
\* calculate_collaboration_stats (called on its own or by
\* process_data.main).
C9_RowsPersist ==
    [][ /\ tracks \subseteq tracks'
        /\ genres \subseteq genres'
        /\ track_genres \subseteq track_genres'
        /\ itunes_tracks \subseteq itunes_tracks'
        /\ ~(collaboration_stats \subseteq collaboration_stats') =>
              last'.op \in {"calculate_collaboration_stats", "process_data"} ]_vars

\* calculate_collaboration_stats has recomputed the statistics of a
\* database that holds rows in all four other tables.
C9_Witness ==
    /\ last.op = "calculate_collaboration_stats"
    /\ collaboration_stats # {}
    /\ tracks # {} /\ genres # {} /\ track_genres # {} /\ itunes_tracks # {}

\* C10: when the Deezer request raises a RequestException,
\* fetch_deezer_charts returns [], gather_deezer.main reports that no
\* tracks were retrieved without calling store_tracks, and the run leaves
\* every table unchanged.
C10_FailedRequestChangesNothing ==
    [][ (last'.op = "gather_deezer" /\ last'.request_failed) =>
          /\ fetch_deezer_charts([failed |-> TRUE, data |-> <<>>]) = <<>>
          /\ last'.report = "No tracks retrieved"
          /\ ~last'.store_called
          /\ last'.error = ""
          /\ DB' = DB ]_vars

\* A gather_deezer run whose request failed, on a database that holds
\* tracks.
C10_Witness ==
    /\ last.op = "gather_deezer"
    /\ last.request_failed
    /\ tracks # {}

\* C11: one call of search_itunes issues at most MAX_RETRIES requests; the
\* wait after the k-th failed attempt is RATE_LIMIT_DELAY * 2^(k-1) (2.5 s,
\* then 5 s); after the last failed attempt it returns None without another
\* sleep or request.
C11_ItunesBackoff ==
    http.module = "itunes" =>
        /\ http.requests <= IT_MAX_RETRIES
        /\ Len(http.waits) <= IT_MAX_RETRIES - 1
        /\ \A k \in 1..Len(http.waits) :
              http.waits[k] = IT_RATE_LIMIT_DELAY * (2 ^ (k - 1))
        /\ Len(http.waits) >= 1 => http.waits[1] = 25
        /\ Len(http.waits) >= 2 => http.waits[2] = 50
        /\ http.pc \in {"backoff", "returned"} => http.requests = Len(http.waits) + 1
        /\ (http.pc = "returned" /\ http.response \notin OkResponses) =>
              /\ http.result = "none"
              /\ http.requests = IT_MAX_RETRIES
              /\ Len(http.waits) = IT_MAX_RETRIES - 1

\* search_itunes has returned None after three failed attempts and the two
\* waits between them.
C11_Witness ==
    /\ http.module = "itunes"
    /\ http.pc = "returned"
    /\ http.requests = 3
    /\ http.response \in RateLimitedResponses
    /\ http.result = "none"
    /\ http.waits = <<25, 50>>

\* C12 as stated: fetch_genre_for_artist issues at most 3 requests, the
\* wait grows from one retry to the next, and only a rate-limit or
\* forbidden response (429, 403) is retried.
C12_ExponentialOnRateLimit ==
    http.module = "musicbrainz" =>
        /\ http.requests <= MB_MAX_RETRIES
        /\ \A k \in 2..Len(http.waits) : http.waits[k] > http.waits[k - 1]
        /\ http.pc = "retry_sleep" => http.response \in RateLimitedResponses

\* C12 amended: fetch_genre_for_artist issues at most 3 requests; it
\* retries after every RequestException (connection error, timeout, any
\* error status) while attempts remain, and after nothing else; the wait
\* before every retry is the same 2 s (followed by the 1.1 s sleep that
\* precedes every request); after the third failed attempt it returns None.
C12_FixedWaitAnyRequestException ==
    http.module = "musicbrainz" =>
        /\ http.requests <= MB_MAX_RETRIES
        /\ \A k \in 1..Len(http.waits) : http.waits[k] = 20
        /\ http.pc = "retry_sleep" =>
              /\ http.response \in MbRequestExceptions
              /\ http.requests < MB_MAX_RETRIES
        /\ (http.pc = "returned" /\ http.response \in MbRequestExceptions) =>
              /\ http.requests = MB_MAX_RETRIES
              /\ Len(http.waits) = MB_MAX_RETRIES - 1
              /\ http.result = "none"
        /\ http.response \in OkResponses \cup {"malformed"} =>
              http.pc \in {"returned", "done"}

\* fetch_genre_for_artist has retried twice, each time after the same wait,
\* and the failure it retried last was no rate-limit or forbidden response.
C12_Witness ==
    /\ http.module = "musicbrainz"
    /\ http.pc = "returned"
    /\ http.requests = 3
    /\ http.waits = <<20, 20>>
    /\ http.response \in OtherFailures

\* C13: when the tables do not exist, every operation (the status checks
\* and the gather, process and analysis entry points) catches the error
\* and returns without an unhandled exception; check_database_status
\* records count 0 and check_data_status returns False.
C13_MissingTableCaught ==
    (~tables_exist /\ last.op # "start") =>
        /\ last.error = ""
        /\ last.op = "check_database_status" =>
              (last.ret = 0 /\ last.report = "Table does not exist")
        /\ ~check_data_status(DB, tables_exist)

\* The sleep a module owes between two requests: its RATE_LIMIT_DELAY.
RateLimitDelay(module) ==
    IF module = "itunes" THEN IT_RATE_LIMIT_DELAY ELSE MB_RATE_LIMIT_DELAY

\* C14: within one run of gather_musicbrainz or gather_itunes, between any
\* two consecutive HTTP requests (a retry of the same lookup or the lookup
\* of the next track) sleeps of at least the module's RATE_LIMIT_DELAY in
\* total are executed.
C14_SleepBetweenRequests ==
    [][ (http'.total_requests > http.total_requests /\ http.total_requests > 0)
            => http.since >= RateLimitDelay(http.module) ]_vars

\* A second track's request is about to be issued after a lookup that
\* failed on its last attempt (no backoff sleep after it), in each module's
\* smallest possible distance from the previous request.
C14_Witness ==
    /\ http.pc = "request"
    /\ http.track = 2
    /\ http.attempt = 0
    /\ http.total_requests >= 3
    /\ http.since = RateLimitDelay(http.module)

\* The tracks that should be left without a genre after `count` runs that
\* started from n0 of them.
RemainingAfter(n0, count) ==
    IF n0 > count * MB_MAX_ITEMS_PER_RUN
    THEN n0 - count * MB_MAX_ITEMS_PER_RUN ELSE 0

\* C15: repeated runs of gather_musicbrainz.main, with no track added in
\* between, eventually leave no track without a genre.  Whatever
\* fetch_genre_for_artist returns, every run links
\* min(remaining, MAX_ITEMS_PER_RUN) further tracks, so that after `count`
\* runs max(0, N - count * MAX_ITEMS_PER_RUN) tracks remain and after
\* ceil(N / MAX_ITEMS_PER_RUN) runs none does.
C15_RunsLeaveNoTrackWithoutGenre ==
    /\ [](runs.stage = "gather_musicbrainz" =>
            /\ Len(TracksWithoutGenre(DB)) = RemainingAfter(runs.n0, runs.count)
            /\ (runs.count * MB_MAX_ITEMS_PER_RUN >= runs.n0
                   => TracksWithoutGenre(DB) = <<>>)
            /\ (runs.count > 0 =>
                   runs.linked = RemainingAfter(runs.n0, runs.count - 1)
                                 - RemainingAfter(runs.n0, runs.count)))
    /\ (runs.stage = "gather_musicbrainz") ~> (TracksWithoutGenre(DB) = <<>>)

\* Three tracks without a genre, the third linked by a run whose lookup
\* returned nothing.
C15_Witness ==
    /\ runs.stage = "gather_musicbrainz"
    /\ runs.n0 = MaxRunTracks
    /\ runs.count * MB_MAX_ITEMS_PER_RUN >= runs.n0
    /\ runs.linked > 0
    /\ TracksWithoutGenre(DB) = <<>>
    /\ \E g \in genres : g.genre_name = guess_genre_from_name(<<"A", "d", "e", "l", "e">>)

\* C16: repeated runs of gather_itunes.main, with no track added in
\* between, search every track that lacked iTunes data at the start, even
\* when the tracks selected first are not found or rejected again and
\* again.
C16_EveryTrackSearched ==
    (runs.stage = "gather_itunes") ~> (runs.lacking \subseteq runs.searched)

\* C17: repeated runs of gather_deezer.main against a deterministic API
\* (every query always answers with the same non-empty list of at most 25
\* tracks) keep adding rows until tracks holds the 100+ rows aimed at; the
\* query chosen from the track count is never stuck on one that yields no
\* new track.  Stated for the APIs that offer that many tracks at all.
C17_RunsReachTarget ==
    (runs.stage = "gather_deezer" /\ Cardinality(Offered(runs.api)) >= TargetTracks)
        ~> (Cardinality(tracks) >= TargetTracks)

\* The place of a component in the order run_all.main announces.
Rank(stage) ==
    IF stage = "create_database" THEN 1
    ELSE IF stage = "gather_deezer" THEN 2
    ELSE IF stage = "gather_musicbrainz" THEN 3
    ELSE IF stage = "gather_itunes" THEN 4
    ELSE IF stage = "process_data" THEN 5
    ELSE 6

\* The calls of a component made so far.
Calls(stage) == Cardinality({ k \in DOMAIN ra.log : ra.log[k] = stage })

\* C18: run_all.main runs the components in order.  create_database is
\* the first call and is made once; every gather_deezer run precedes every
\* gather_musicbrainz run, which precedes every gather_itunes run;
\* process_data.main is called after all the gather runs and
\* analyze_visualize.main last.  A call is one step: it has returned when
\* the next one starts.
C18_ComponentsInOrder ==
    /\ \A j, k \in DOMAIN ra.log : j < k => Rank(ra.log[j]) <= Rank(ra.log[k])
    /\ ra.log # <<>> => ra.log[1] = "create_database"
    /\ Calls("create_database") <= 1
    /\ Calls("gather_musicbrainz") > 0 => Calls("gather_deezer") = DEEZER_RUNS
    /\ Calls("gather_itunes") > 0 => Calls("gather_musicbrainz") = MUSICBRAINZ_RUNS
    /\ Calls("process_data") > 0 =>
          /\ Calls("process_data") = 1
          /\ Calls("gather_deezer") = DEEZER_RUNS
          /\ Calls("gather_musicbrainz") = MUSICBRAINZ_RUNS
          /\ Calls("gather_itunes") = ITUNES_RUNS
    /\ Calls("analyze_visualize") > 0 =>
          /\ Calls("analyze_visualize") = 1
          /\ Calls("process_data") = 1
          /\ ra.log[Len(ra.log)] = "analyze_visualize"
          /\ ra.pc \in {"complete", "raised"}
    /\ ra.pc = "complete" => Calls("analyze_visualize") = 1

\* An execution that ran to "PROJECT EXECUTION COMPLETE".
C18_Witness ==
    /\ ra.pc = "complete"
    /\ Len(ra.log) = 3 + DEEZER_RUNS + MUSICBRAINZ_RUNS + ITUNES_RUNS
    /\ last.op = "analyze_visualize"
    /\ tracks # {}

\* C19: in every execution of run_all.main, analyze_visualize.main
\* performs its analysis (runs the statistical tests and writes its
\* files, ending with "ANALYSIS COMPLETE") only if
\* calculate_collaboration_stats was executed earlier in that execution
\* and collaboration_stats holds rows.
C19_AnalysisAfterStatistics ==
    (last.op = "analyze_visualize" /\ last.report = "ANALYSIS COMPLETE")
        => (ra.calculated /\ collaboration_stats # {})

\* C20: create_database creates each of the five tables only if absent.
\* A call on a database that already holds the tables and rows leaves
\* every row of every table as it was, and a second call yields the same
\* state as the first.
C20_CreateDatabaseIdempotent ==
    /\ [](create_database(create_database(DB)) = create_database(DB))
    /\ [][last'.op = "create_database" =>
             /\ tables_exist'
             /\ tables_exist => DB' = DB
             /\ last.op = "create_database" => UNCHANGED vars]_vars

\* create_database has just run on a database that held rows in tracks,
\* genres, track_genres and itunes_tracks.
C20_Witness ==
    /\ last.op = "create_database"
    /\ tracks # {}
    /\ genres # {}
    /\ track_genres # {}
    /\ itunes_tracks # {}

\* The deezer_ids of a set of tracks rows.
DeezerIdsOf(rows) == { t.deezer_id : t \in rows }

\* C21: a track that violates the uniqueness of deezer_id is skipped and
\* the batch goes on.  After store_tracks, every one of the first
\* MAX_ITEMS_PER_RUN tracks of the batch is in the table, also one that
\* follows an already-present track; the rows that were there are kept;
\* nothing beyond the slice is stored; and the returned count is the
\* increase of the row count.
C21_DuplicateSkippedBatchGoesOn ==
    runs.stage = "store_tracks" =>
        LET slice == Limit(runs.batch, StoreMax)
            in_slice == { slice[k].deezer_id : k \in 1..Len(slice) }
        IN  /\ runs.before \subseteq tracks
            /\ DeezerIdsOf(tracks) = DeezerIdsOf(runs.before) \cup in_slice
            /\ runs.ret = Cardinality(tracks) - Cardinality(runs.before)
            /\ Cardinality(tracks) = Cardinality(DeezerIdsOf(tracks))

\* A batch whose first track was already present and whose second track
\* was stored.
C21_Witness ==
    /\ runs.stage = "store_tracks"
    /\ Len(runs.batch) >= 2
    /\ runs.batch[1].deezer_id \in DeezerIdsOf(runs.before)
    /\ runs.batch[2].deezer_id \notin DeezerIdsOf(runs.before)
    /\ runs.batch[2].deezer_id \in DeezerIdsOf(tracks)
    /\ runs.ret = 1

\* C22, as claimed: for every list of regions, a second call of
\* store_regions with the same list inserts no row into regions and
\* returns 0.
C22_SecondCallInsertsNothing ==
    (runs.stage = "store_regions" /\ runs.same_list)
        => (runs.ret = 0 /\ runs.regions = runs.before)

\* C22, amended: store_regions resumes at the row count.  A call handles
\* only the entries of the list from position count + 1 to
\* count + MAX_ITEMS_PER_RUN, count being the rows in regions before the
\* call; it keeps the rows that are there and returns the number of rows
\* it added.  A call with a list that has no more entries than regions has
\* rows, such as a repeated call once the whole list is stored, inserts
\* nothing and returns 0.
C22_ResumesAtRowCount ==
    runs.stage = "store_regions" =>
        LET count == Cardinality(runs.before)
            handled == { runs.list[k] : k \in
                           { j \in DOMAIN runs.list :
                               j > count /\ j <= count + CENSUS_MAX_ITEMS_PER_RUN } }
        IN  /\ runs.before \subseteq runs.regions
            /\ { r.region_name : r \in runs.regions } =
                   { r.region_name : r \in runs.before } \cup handled
            /\ runs.ret = Cardinality(runs.regions) - count
            /\ Len(runs.list) <= count => (runs.ret = 0 /\ runs.regions = runs.before)

\* A repeated call with a list that is stored in full: it returns 0.
C22_Witness ==
    /\ runs.stage = "store_regions"
    /\ runs.same_list
    /\ Len(runs.list) = MaxRegions
    /\ Cardinality(runs.before) = MaxRegions
    /\ runs.ret = 0
    /\ runs.regions = runs.before

\* C23: the analysis requires both solo and collaboration tracks.
\* analyze_visualize.main, run on a database that has its tables, calls
\* the statistical tests and writes files only when the loaded data holds
\* at least one solo and at least one collaboration track; in every other
\* case it prints a message and returns normally, with no test called and
\* no file written.
C23_AnalysisNeedsBothKinds ==
    (last.op = "analyze_visualize" /\ tables_exist) =>
        LET data == get_track_data(DB)
            both == CountWhere(data, 0) >= 1 /\ CountWhere(data, 1) >= 1
        IN  /\ (last.tests # {} \/ last.files # {}) => both
            /\ ~both => (last.error = "" /\ last.report # ""
                         /\ last.tests = {} /\ last.files = {})

\* C24: process_data.main calculates the collaboration statistics only
\* when the data is ready.  Unless tracks holds its 100 rows, genres 1,
\* track_genres 50 and itunes_tracks 50 (the scaled requirements here),
\* calculate_collaboration_stats is not invoked: main reports that there
\* is not enough data and collaboration_stats and genres stay as they are.
C24_StatisticsOnlyWhenReady ==
    [][last'.op = "process_data" =>
          (~(/\ tables_exist
             /\ Cardinality(tracks) >= REQ_TRACKS
             /\ Cardinality(genres) >= REQ_GENRES
             /\ Cardinality(track_genres) >= REQ_TRACK_GENRES
             /\ Cardinality(itunes_tracks) >= REQ_ITUNES_TRACKS)
             => /\ collaboration_stats' = collaboration_stats
                /\ genres' = genres
                /\ last'.report = "Not enough data to process"
                /\ last'.ret = 0)]_vars

\* process_data.main has just declined: tracks and track_genres hold the
\* rows required, itunes_tracks does not.
C24_Witness ==
    /\ last.op = "process_data"
    /\ last.report = "Not enough data to process"
    /\ Cardinality(tracks) >= REQ_TRACKS
    /\ Cardinality(track_genres) >= REQ_TRACK_GENRES
    /\ Cardinality(itunes_tracks) < REQ_ITUNES_TRACKS
    /\ collaboration_stats = {}

\* The least number of further runs after which none of `remaining`
\* tracks lacks a genre, each run assigning min(remaining, MAX_ITEMS_PER_RUN).
LeastRuns(remaining) ==
    CHOOSE n \in 0..remaining :
        /\ RemainingAfter(remaining, n) = 0
        /\ \A k \in 0..(n - 1) : RemainingAfter(remaining, k) > 0

\* C25: the number of further runs gather_musicbrainz.main reports is the
\* least number of further runs after which no track lacks a genre, for
\* every remaining count greater than 0, exact multiples of
\* MAX_ITEMS_PER_RUN included.
C25_ReportedRunsAreNeeded ==
    (runs.stage = "gather_musicbrainz" /\ runs.count > 0
                                       /\ TracksWithoutGenre(DB) # <<>>)
        => runs.reported = LeastRuns(Len(TracksWithoutGenre(DB)))

\* The non-null iTunes genres stored for a track.
ItunesGenreOfTrack(d, track_id) ==
    { it.itunes_genre : it \in { r \in d.itunes_tracks : r.track_id = track_id } }
        \ {None}

\* The names of the genres linked to a track through track_genres.
LinkedGenreOfTrack(d, track_id) ==
    { g.genre_name : g \in { r \in d.genres :
          \E tg \in d.track_genres : /\ tg.track_id = track_id
                                     /\ tg.genre_id = r.genre_id } }

\* The category of a track with the iTunes genre preferred, under the
\* normalisation norm.
PreferredCategory(d, track_id, norm(_)) ==
    IF ItunesGenreOfTrack(d, track_id) # {}
    THEN norm(CHOOSE x \in ItunesGenreOfTrack(d, track_id) : TRUE)
    ELSE IF LinkedGenreOfTrack(d, track_id) # {}
    THEN norm(CHOOSE x \in LinkedGenreOfTrack(d, track_id) : TRUE)
    ELSE s_other

\* C26: the category used for a track is the normalisation of its iTunes
\* genre when it has an itunes_tracks row with a non-null genre, otherwise
\* the normalisation of the genre linked through track_genres, and "other"
\* when it has neither; calculate_collaboration_stats and get_track_data
\* apply the same precedence, and the statistics written are those of
\* these categories.
C26_ItunesGenrePreferred ==
    tables_exist =>
        /\ \A k \in 1..Len(JoinRows(DB)) :
             LET track_id == JoinRows(DB)[k].track_id
             IN  /\ PD_normalize_genre(PD_tracks(DB)[k].genre)
                      = PreferredCategory(DB, track_id, PD_normalize_genre)
                 /\ AV_normalize_genre(get_track_data(DB)[k].genre)
                      = PreferredCategory(DB, track_id, AV_normalize_genre)
        /\ (/\ last.op \in {"calculate_collaboration_stats", "process_data"}
            /\ last.ret > 0)
             => { <<GenreNameOf(genres, s.genre_id), s.is_collaboration>> :
                     s \in collaboration_stats }
                = { <<PreferredCategory(DB, t.track_id, PD_normalize_genre),
                      t.is_collaboration>> : t \in tracks }

\* Statistics were calculated over a track whose iTunes genre and linked
\* genre fall in different categories, and over a track that has a linked
\* genre and no iTunes genre.
C26_Witness ==
    /\ last.op \in {"calculate_collaboration_stats", "process_data"}
    /\ last.ret > 0
    /\ \E t \in tracks :
         /\ ItunesGenreOfTrack(DB, t.track_id) # {}
         /\ LinkedGenreOfTrack(DB, t.track_id) # {}
         /\ PD_normalize_genre(CHOOSE x \in ItunesGenreOfTrack(DB, t.track_id) : TRUE)
              # PD_normalize_genre(CHOOSE x \in LinkedGenreOfTrack(DB, t.track_id) : TRUE)
    /\ \E t \in tracks :
         /\ ItunesGenreOfTrack(DB, t.track_id) = {}
         /\ LinkedGenreOfTrack(DB, t.track_id) # {}

=============================================================================
